---- MODULE Spec2Model ----
(***************************************************************************)
(* Verification model of the LLM-driven analysis execution service:        *)
(*   - SafetyValidator          (tools/analytics/safety_validator.py)      *)
(*   - SandboxExecutor          (tools/analytics/sandbox/executor.py)      *)
(*   - CodeGenerator            (tools/analytics/code_generator.py)        *)
(*   - ResultProcessor          (tools/analytics/result_processor.py)      *)
(*   - PythonAnalysisAgent      (agents/python_analysis_agent.py)          *)
(*   - chat backend             (backend/main.py)                          *)
(*   - DatabaseConnectionPool   (mcp_servers/mssql_server/                 *)
(*                               connection_pool.py)                       *)
(*                                                                         *)
(* Python strings are TLA+ strings; substring tests, str.split, str.lower  *)
(* and the regular expressions of the validator are computed character by  *)
(* character.                                                              *)
(***************************************************************************)
EXTENDS Integers, Sequences, FiniteSets, TLC

VARIABLES
    src,                \* SpecValidator: the source handed to validate(), a sequence of statements
    report,             \* SpecValidator: outcome of the validate() call
    pc,                 \* analyze(): position in the pipeline
    code,               \* analyze(): the generated program
    validation_result,  \* analyze(): result of safety_validator.validate(code)
    workspace,          \* execute(): state of the temporary workspace directory
    container,          \* _run_container(): state of the container sandbox_<execution_id>
    files,              \* content of <workspace>/outputs as written by the program
    query,              \* analyze(): the query argument
    exc,                \* _run_container(): the exception caught at "except Exception as e" of the wait block
    exit_code,          \* _run_container(): StatusCode returned by container.wait
    pending,            \* _run_container() / execute(): the ExecutionResult being returned while finally runs
    analyze_exc,        \* the exception that reached the except clause of analyze()
    execution_result,   \* analyze(): ExecutionResult returned by execute()
    insights,           \* analyze(): value of the local variable insights
    result,             \* analyze(): the AnalysisResult returned
    trace,              \* log of the external calls made by the current analyze()
    queries,            \* batch_analyze(): the queries argument
    max_concurrent,     \* batch_analyze(): the max_concurrent argument
    batch_pc,           \* batch_analyze(): position of the coroutine
    semaphore,          \* batch_analyze(): the asyncio.Semaphore, its counter and its queue of waiters
    tasks,              \* batch_analyze(): the tasks gather made of analyze_with_semaphore(q), by index
    ready,              \* event loop: tasks scheduled to run, in scheduling order
    running,            \* event loop: the task whose code holds the loop's thread, 0 if none
    final_results,      \* batch_analyze(): the list returned
    chat_sessions,      \* backend: the in-memory session map, session id -> list of messages
    websocket,          \* backend: the connection accepted by websocket_chat and its handler
    http_response,      \* backend: the response of the last HTTP request
    appended,           \* history: per session id, the messages appended since the id was created
    since_delete,       \* history: per session id, what happened to the id since its last DELETE
    daemon,             \* container daemon: per execution, the state of its container sandbox_<execution_id>
    clients,            \* quick_analyze() calls sharing the daemon: position, cleanup list, outcome
    _engine,            \* DatabaseConnectionPool._engine, 0 is None
    _lock,              \* DatabaseConnectionPool._lock: the thread holding it, 0 if free
    disposed,           \* the engines dispose() was called on
    threads             \* threads using the pool: position and the value returned

analysis_vars == <<src, report, pc, query, code, validation_result, workspace, container, files,
                   exc, exit_code, pending, analyze_exc, execution_result, insights, result, trace>>

batch_vars == <<queries, max_concurrent, batch_pc, semaphore, tasks, ready, running, final_results>>

server_vars == <<chat_sessions, websocket, http_response, appended, since_delete>>

daemon_vars == <<daemon, clients>>

pool_vars == <<_engine, _lock, disposed, threads>>

vars == <<analysis_vars, batch_vars, server_vars, daemon_vars, pool_vars>>

-----------------------------------------------------------------------------
(* Bounds *)

MaxStmts == 2           \* longest source (in statements) handed to validate()
MaxClients == 2         \* quick_analyze() calls sharing the container daemon
MaxReaders == 2         \* threads reading DatabaseConnectionPool.engine

-----------------------------------------------------------------------------
(* Python string helpers *)

UpperAlphabet == "ABCDEFGHIJKLMNOPQRSTUVWXYZ"
LowerAlphabet == "abcdefghijklmnopqrstuvwxyz"
Digits        == "0123456789"

CharAt(s, i) == SubSeq(s, i, i)

InStr(c, alphabet) == \E i \in 1..Len(alphabet) : CharAt(alphabet, i) = c

\* the substring test  needle in hay
Contains(hay, needle) ==
    \E i \in 1..(Len(hay) - Len(needle) + 1) : SubSeq(hay, i, i + Len(needle) - 1) = needle

LowerChar(c) ==
    IF InStr(c, UpperAlphabet)
    THEN CharAt(LowerAlphabet, CHOOSE i \in 1..Len(UpperAlphabet) : CharAt(UpperAlphabet, i) = c)
    ELSE c

RECURSIVE Lower(_)
\* str.lower()
Lower(s) == IF Len(s) = 0 THEN "" ELSE LowerChar(CharAt(s, 1)) \o Lower(SubSeq(s, 2, Len(s)))

\* s.split('.')[0]
SplitDotHead(s) ==
    IF Contains(s, ".")
    THEN SubSeq(s, 1, (CHOOSE i \in 1..Len(s) :
                          /\ CharAt(s, i) = "."
                          /\ \A j \in 1..(i - 1) : CharAt(s, j) # ".") - 1)
    ELSE s

RECURSIVE JoinLines(_)
\* "\n".join(lines)
JoinLines(lines) ==
    IF Len(lines) = 0 THEN ""
    ELSE IF Len(lines) = 1 THEN lines[1]
    ELSE lines[1] \o "\n" \o JoinLines(Tail(lines))

\* the regular-expression class \w
IsWordChar(c) == InStr(c, UpperAlphabet) \/ InStr(c, LowerAlphabet) \/ InStr(c, Digits) \/ c = "_"

SetMax(S) == CHOOSE m \in S : \A n \in S : n <= m

RECURSIVE Flatten(_)
\* concatenation of a sequence of sequences
Flatten(ss) == IF Len(ss) = 0 THEN <<>> ELSE Head(ss) \o Flatten(Tail(ss))

\* seq[:n]
Prefix(seq, n) == SubSeq(seq, 1, IF Len(seq) < n THEN Len(seq) ELSE n)

RECURSIVE ReprList(_)
\* the items of repr(list of str), without the brackets
ReprList(seq) ==
    IF Len(seq) = 0 THEN ""
    ELSE IF Len(seq) = 1 THEN "'" \o seq[1] \o "'"
    ELSE "'" \o seq[1] \o "', " \o ReprList(Tail(seq))

-----------------------------------------------------------------------------
(* re.findall for the two shapes of SUSPICIOUS_PATTERNS *)

\* end positions of a match of __\w+__ that starts at i
DunderEnds(s, i) ==
    {j \in (i + 4)..Len(s) :
        /\ SubSeq(s, j - 1, j) = "__"
        /\ \A k \in (i + 2)..(j - 2) : IsWordChar(CharAt(s, k))}

RECURSIVE FindDunder(_, _)
\* re.findall(r'__\w+__', s) from position i: leftmost, greedy, non-overlapping
FindDunder(s, i) ==
    IF i + 1 > Len(s) THEN <<>>
    ELSE IF SubSeq(s, i, i + 1) = "__" /\ DunderEnds(s, i) # {}
         THEN LET j == SetMax(DunderEnds(s, i))
              IN  <<SubSeq(s, i, j)>> \o FindDunder(s, j + 1)
         ELSE FindDunder(s, i + 1)

RECURSIVE FindLiteral(_, _, _)
\* re.findall of a pattern without metacharacters, from position i
FindLiteral(s, lit, i) ==
    IF i + Len(lit) - 1 > Len(s) THEN <<>>
    ELSE IF SubSeq(s, i, i + Len(lit) - 1) = lit
         THEN <<lit>> \o FindLiteral(s, lit, i + Len(lit))
         ELSE FindLiteral(s, lit, i + 1)

\* re.findall(pattern, s)
FindAll(pattern, s) ==
    IF pattern.literal = "" THEN FindDunder(s, 1) ELSE FindLiteral(s, pattern.literal, 1)

-----------------------------------------------------------------------------
(* SafetyValidator: class constants *)

BLOCKED_IMPORTS ==
    {"os", "subprocess", "sys", "socket", "http", "urllib", "requests", "shutil",
     "tempfile", "multiprocessing", "threading", "ctypes", "importlib", "__builtin__",
     "__import__", "pty", "telnetlib", "ftplib", "smtplib"}

BLOCKED_FUNCTIONS ==
    {"eval", "exec", "compile", "__import__", "open", "input", "raw_input",
     "execfile", "file", "reload"}

\* regex: the pattern as written; literal: the text it matches when it has no
\* metacharacter besides an escaped parenthesis ("" for __\w+__)
SUSPICIOUS_PATTERNS ==
    << [regex |-> "__\\w+__",   literal |-> ""],
       [regex |-> "getattr",    literal |-> "getattr"],
       [regex |-> "setattr",    literal |-> "setattr"],
       [regex |-> "delattr",    literal |-> "delattr"],
       [regex |-> "globals\\(", literal |-> "globals("],
       [regex |-> "locals\\(",  literal |-> "locals("],
       [regex |-> "vars\\(",    literal |-> "vars("],
       [regex |-> "dir\\(",     literal |-> "dir("] >>

safe_patterns == {"__init__", "__main__", "__name__", "__file__"}

critical_keywords == <<"exec", "eval", "import os", "subprocess">>

FILE_OPERATION_ATTRS == {"open", "write_text", "write_bytes", "read_text", "read_bytes"}

-----------------------------------------------------------------------------
(* Sources and their syntax trees (what ast.parse and ast.walk yield) *)

\* a node of the tree as the checks read it: its class, its depth below Module,
\* alias names (Import), module (ImportFrom; "" is None), and for a Call the
\* class of node.func with its id (Name) or attr (Attribute)
Node(type, depth, names, module, func, ident) ==
    [type |-> type, depth |-> depth, names |-> names, module |-> module,
     func |-> func, ident |-> ident]

ImportNode(names)      == Node("Import", 1, names, "", "", "")
ImportFromNode(module) == Node("ImportFrom", 1, <<>>, module, "", "")
CallNode(depth, func, ident) == Node("Call", depth, <<>>, "", func, ident)
OtherNode(type, depth) == Node(type, depth, <<>>, "", "", "")

\* one statement of a source: its text, what the parser does with it and,
\* when it parses, the import and call nodes of its subtree with their depths
Stmt(text, parse, nodes) == [text |-> text, parse |-> parse, nodes |-> nodes]

MaxDepth == 3

Statements ==
    { Stmt("import os", "ok", <<ImportNode(<<"os">>)>>),
      Stmt("os.system(cmd)", "ok", <<OtherNode("Expr", 1), CallNode(2, "Attribute", "system")>>),
      Stmt("import json, os.path", "ok", <<ImportNode(<<"json", "os.path">>)>>),
      Stmt("from subprocess import run", "ok", <<ImportFromNode("subprocess")>>),
      Stmt("from urllib.request import urlopen", "ok", <<ImportFromNode("urllib.request")>>),
      Stmt("from . import helpers", "ok", <<ImportFromNode("")>>),
      Stmt("import pandas as pd", "ok", <<ImportNode(<<"pandas">>)>>),
      Stmt("exec(src)", "ok", <<OtherNode("Expr", 1), CallNode(2, "Name", "exec")>>),
      Stmt("p.open()", "ok", <<OtherNode("Expr", 1), CallNode(2, "Attribute", "open")>>),
      Stmt("p.read_text()", "ok", <<OtherNode("Expr", 1), CallNode(2, "Attribute", "read_text")>>),
      Stmt("make()()", "ok",
           <<OtherNode("Expr", 1), CallNode(2, "Call", ""), CallNode(3, "Name", "make")>>),
      Stmt("setattr(vars(o), dir(o), locals())", "ok",
           <<OtherNode("Expr", 1), CallNode(2, "Name", "setattr"), CallNode(3, "Name", "vars"),
             CallNode(3, "Name", "dir"), CallNode(3, "Name", "locals")>>),
      Stmt("c = getattr(o, '__class__')", "ok",
           <<OtherNode("Assign", 1), CallNode(2, "Name", "getattr")>>),
      Stmt("if __name__ == '__main__': pass", "ok", <<OtherNode("If", 1)>>),
      Stmt("def f(:", "SyntaxError", <<>>),
      \* stands for a sum of some 200000 terms, deeper than the recursion limit
      \* of the tree construction
      Stmt("x = 1+1+1+1+1+1+1+1", "RecursionError", <<>>) }

RECURSIVE SeqsUpTo(_, _)
\* the sequences over S of length at most n
SeqsUpTo(S, n) ==
    IF n = 0 THEN {<<>>}
    ELSE LET shorter == SeqsUpTo(S, n - 1)
         IN  shorter \cup {Append(q, x) : q \in {r \in shorter : Len(r) = n - 1}, x \in S}

Sources == SeqsUpTo(Statements, MaxStmts)

\* the text of a source
CodeText(source) == JoinLines([i \in 1..Len(source) |-> source[i].text])

\* the line of the first statement the parser cannot handle (0 if none)
FirstBadLine(source) ==
    IF \A i \in 1..Len(source) : source[i].parse = "ok" THEN 0
    ELSE CHOOSE i \in 1..Len(source) :
            /\ source[i].parse # "ok"
            /\ \A j \in 1..(i - 1) : source[j].parse = "ok"

\* ast.parse(code): "ok", or the class of the exception it raises
ParseOutcome(source) ==
    IF FirstBadLine(source) = 0 THEN "ok" ELSE source[FirstBadLine(source)].parse

\* str(e) of the SyntaxError of ast.parse (line numbers below 10)
SyntaxErrorText(source) ==
    "invalid syntax (<unknown>, line " \o CharAt(Digits, FirstBadLine(source) + 1) \o ")"

\* list(ast.walk(tree)), Module node left out: breadth first, so by depth and,
\* within a depth, in source order
Walk(source) ==
    Flatten([d \in 1..MaxDepth |->
        Flatten([i \in 1..Len(source) |->
            SelectSeq(source[i].nodes, LAMBDA n : n.depth = d)])])

-----------------------------------------------------------------------------
(* SafetyValidator *)

\* _check_imports that looks the whole dotted name up, without split('.')[0]
ImportViolations_mut(node) ==
    IF node.type = "Import"
    THEN Flatten([i \in 1..Len(node.names) |->
            IF node.names[i] \in BLOCKED_IMPORTS
            THEN <<"Blocked import: " \o node.names[i]>>
            ELSE <<>>])
    ELSE IF node.type = "ImportFrom" /\ node.module # "" /\ node.module \in BLOCKED_IMPORTS
         THEN <<"Blocked import from: " \o node.module>>
         ELSE <<>>

\* the violations one node adds in _check_imports
ImportViolations(node) ==
    IF node.type = "Import"
    THEN Flatten([i \in 1..Len(node.names) |->
            IF SplitDotHead(node.names[i]) \in BLOCKED_IMPORTS
            THEN <<"Blocked import: " \o node.names[i]>>
            ELSE <<>>])
    ELSE IF node.type = "ImportFrom" /\ node.module # ""
              /\ SplitDotHead(node.module) \in BLOCKED_IMPORTS
         THEN <<"Blocked import from: " \o node.module>>
         ELSE <<>>

_check_imports(tree) == Flatten([i \in 1..Len(tree) |-> ImportViolations(tree[i])])

\* func_name of a Call node ("" is None)
FuncName(node) == IF node.func \in {"Name", "Attribute"} THEN node.ident ELSE ""

\* the violations one node adds in _check_functions
FunctionViolations(node) ==
    IF node.type = "Call" /\ FuncName(node) \in BLOCKED_FUNCTIONS
    THEN <<"Blocked function call: " \o FuncName(node) \o "()">>
    ELSE <<>>

_check_functions(tree) == Flatten([i \in 1..Len(tree) |-> FunctionViolations(tree[i])])

\* the warnings one node adds in _check_file_operations
FileWarnings(node) ==
    IF node.type = "Call" /\ node.func = "Attribute" /\ node.ident \in FILE_OPERATION_ATTRS
    THEN <<"File operation: Path." \o node.ident \o "()">>
    ELSE <<>>

\* _check_file_operations returns (violations, warnings); violations stays empty
_check_file_operations(tree) ==
    [violations |-> <<>>,
     warnings   |-> Flatten([i \in 1..Len(tree) |-> FileWarnings(tree[i])])]

\* the warning one pattern adds in _check_suspicious_patterns
PatternWarnings(pattern, text) ==
    LET matches == FindAll(pattern, text)
        dangerous_matches == SelectSeq(matches, LAMBDA m : m \notin safe_patterns)
    IN  IF Len(matches) > 0 /\ Len(dangerous_matches) > 0
        THEN <<"Suspicious pattern: " \o pattern.regex \o " (matches: ["
                \o ReprList(Prefix(dangerous_matches, 3)) \o "])">>
        ELSE <<>>

_check_suspicious_patterns(text) ==
    Flatten([i \in 1..Len(SUSPICIOUS_PATTERNS) |-> PatternWarnings(SUSPICIOUS_PATTERNS[i], text)])

\* any(keyword in v.lower() for v in violations for keyword in critical_keywords)
MentionsCritical(violations) ==
    \E i \in 1..Len(violations) : \E k \in 1..Len(critical_keywords) :
        Contains(Lower(violations[i]), critical_keywords[k])

_assess_risk_mut(violations, warnings) ==
    IF Len(violations) = 0 /\ Len(warnings) = 0 THEN "safe"
    ELSE IF Len(violations) > 0
         THEN IF MentionsCritical(violations) THEN "critical" ELSE "high"
         ELSE IF Len(warnings) >= 5 THEN "medium"
         ELSE IF Len(warnings) > 0 THEN "low"
         ELSE "safe"

_assess_risk(violations, warnings) ==
    IF Len(violations) = 0 /\ Len(warnings) = 0 THEN "safe"
    ELSE IF Len(violations) > 0
         THEN IF MentionsCritical(violations) THEN "critical" ELSE "high"
         ELSE IF Len(warnings) > 5 THEN "medium"
         ELSE IF Len(warnings) > 0 THEN "low"
         ELSE "safe"

ValidationResult(is_safe, violations, warnings, risk_level) ==
    [status |-> "returned", is_safe |-> is_safe, violations |-> violations,
     warnings |-> warnings, risk_level |-> risk_level, error |-> ""]

\* validate() left by an exception that it does not catch
ValidationRaised(error) ==
    [status |-> "raised", is_safe |-> FALSE, violations |-> <<>>,
     warnings |-> <<>>, risk_level |-> "", error |-> error]

\* no validate() call made yet
NoValidation ==
    [status |-> "none", is_safe |-> FALSE, violations |-> <<>>,
     warnings |-> <<>>, risk_level |-> "", error |-> ""]

\* is_safe taken as "there is no violation"
IsSafeLevel_mut(risk_level) == risk_level \notin {"high", "critical"}

\* is_safe = risk_level in ['safe', 'low']
IsSafeLevel(risk_level) == risk_level \in {"safe", "low"}

validate(source) ==
    LET outcome == ParseOutcome(source) IN
    IF outcome = "SyntaxError"
    THEN ValidationResult(FALSE, <<"Syntax error: " \o SyntaxErrorText(source)>>, <<>>, "critical")
    ELSE IF outcome # "ok"
    THEN ValidationRaised(outcome)
    ELSE LET tree       == Walk(source)
             file_ops   == _check_file_operations(tree)
             violations == _check_imports(tree) \o _check_functions(tree) \o file_ops.violations
             warnings   == file_ops.warnings \o _check_suspicious_patterns(CodeText(source))
             risk_level == _assess_risk(violations, warnings)
         IN  ValidationResult(IsSafeLevel(risk_level), violations, warnings, risk_level)

-----------------------------------------------------------------------------
(* Python values held in outputs and results *)

\* str, bytes, JSON number (by its text), dict (set of <<key, value>>), list
Value(type, text, entries, elems) ==
    [type |-> type, text |-> text, entries |-> entries, elems |-> elems]

Str(t)    == Value("str", t, {}, <<>>)
Bytes(b)  == Value("bytes", b, {}, <<>>)
Num(n)    == Value("num", n, {}, <<>>)
Dict(kvs) == Value("dict", "", kvs, <<>>)
List(xs)  == Value("list", "", {}, xs)
NoneValue == Value("None", "", {}, <<>>)
\* the content of a .json file that json.load rejects
Malformed == Value("malformed", "", {}, <<>>)

\* bool(v)
Truthy(v) ==
    CASE v.type \in {"str", "bytes"} -> v.text # ""
      [] v.type = "num"  -> v.text \notin {"0", "0.0"}
      [] v.type = "dict" -> v.entries # {}
      [] v.type = "list" -> Len(v.elems) > 0
      [] OTHER -> FALSE

EndsWith(s, suffix) ==
    Len(s) >= Len(suffix) /\ SubSeq(s, Len(s) - Len(suffix) + 1, Len(s)) = suffix

StartsWith(s, prefix) == Len(s) >= Len(prefix) /\ SubSeq(s, 1, Len(prefix)) = prefix

\* a dict kept in insertion order: sequence of [name, value]
Keys(d) == {d[i].name : i \in 1..Len(d)}

\* d[name]
Lookup(d, name) == d[CHOOSE i \in 1..Len(d) : d[i].name = name].value

\* d.get(name, default)
Get(d, name, default) == IF name \in Keys(d) THEN Lookup(d, name) ELSE default

-----------------------------------------------------------------------------
(* SandboxExecutor._collect_outputs *)

\* what reading one regular file of outputs/ yields; file.content is the value
\* the bytes on disk decode to (Malformed for a .json file that is not JSON,
\* Bytes for a file that is not UTF-8 text)
CollectFile(file) ==
    IF EndsWith(file.name, ".json")
    THEN IF file.content.type = "malformed" THEN [raised |-> TRUE, value |-> NoneValue]
         ELSE [raised |-> FALSE, value |-> file.content]
    ELSE IF EndsWith(file.name, ".png") \/ EndsWith(file.name, ".jpg") \/ EndsWith(file.name, ".jpeg")
    THEN [raised |-> FALSE, value |-> Bytes(file.content.text)]
    ELSE IF EndsWith(file.name, ".html") \/ EndsWith(file.name, ".csv")
    THEN IF file.content.type = "bytes" THEN [raised |-> TRUE, value |-> NoneValue]
         ELSE [raised |-> FALSE, value |-> file.content]
    ELSE [raised |-> FALSE, value |-> file.content]

\* _collect_outputs(outputs_dir): the dict of the files read, or the exception
\* that json.load / f.read raise on the first file that cannot be decoded
_collect_outputs(listing) ==
    IF \E i \in 1..Len(listing) : CollectFile(listing[i]).raised
    THEN [raised |-> TRUE, outputs |-> <<>>]
    ELSE [raised |-> FALSE,
          outputs |-> [i \in 1..Len(listing) |->
                          [name |-> listing[i].name, value |-> CollectFile(listing[i]).value]]]

-----------------------------------------------------------------------------
(* ResultProcessor *)

UpperChar(c) ==
    IF InStr(c, LowerAlphabet)
    THEN CharAt(UpperAlphabet, CHOOSE i \in 1..Len(LowerAlphabet) : CharAt(LowerAlphabet, i) = c)
    ELSE c

IsLetter(c) == InStr(c, UpperAlphabet) \/ InStr(c, LowerAlphabet)

RECURSIVE Replace(_, _, _)
\* s.replace(old, new), old not empty
Replace(s, old, new) ==
    IF Len(s) < Len(old) THEN s
    ELSE IF SubSeq(s, 1, Len(old)) = old
         THEN new \o Replace(SubSeq(s, Len(old) + 1, Len(s)), old, new)
         ELSE CharAt(s, 1) \o Replace(SubSeq(s, 2, Len(s)), old, new)

RECURSIVE TitleFrom(_, _)
\* str.title(): a letter is upper-cased after a non-letter, lower-cased after a letter
TitleFrom(s, afterLetter) ==
    IF Len(s) = 0 THEN ""
    ELSE LET c == CharAt(s, 1)
         IN  (IF afterLetter THEN LowerChar(c) ELSE UpperChar(c))
                 \o TitleFrom(SubSeq(s, 2, Len(s)), IsLetter(c))

\* name.rsplit('.', 1)[0]
RsplitDotHead(s) ==
    IF Contains(s, ".")
    THEN SubSeq(s, 1, SetMax({i \in 1..Len(s) : CharAt(s, i) = "."}) - 1)
    ELSE s

TitlePrefixes == <<"plot_", "chart_", "fig_", "graph_">>

RECURSIVE StripPrefixes(_, _)
\* the loop over ['plot_', 'chart_', 'fig_', 'graph_'], from prefix number k
StripPrefixes(name, k) ==
    IF k > Len(TitlePrefixes) THEN name
    ELSE IF StartsWith(name, TitlePrefixes[k])
         THEN StripPrefixes(SubSeq(name, Len(TitlePrefixes[k]) + 1, Len(name)), k + 1)
         ELSE StripPrefixes(name, k + 1)

_filename_to_title(filename) ==
    TitleFrom(Replace(StripPrefixes(RsplitDotHead(filename), 1), "_", " "), FALSE)

\* base64.b64encode(content).decode('utf-8'), kept symbolic
Base64(content) == Str("base64(" \o content.text \o ")")

\* the entry one output adds in _extract_visualizations
VisualizationOf(entry) ==
    IF EndsWith(entry.name, ".png")
    THEN <<[type |-> "image", format |-> "png", filename |-> entry.name,
            data |-> IF entry.value.type = "bytes" THEN Base64(entry.value) ELSE entry.value,
            title |-> _filename_to_title(entry.name)]>>
    ELSE IF EndsWith(entry.name, ".html")
    THEN <<[type |-> "html", format |-> "html", filename |-> entry.name,
            data |-> entry.value, title |-> _filename_to_title(entry.name)]>>
    ELSE <<>>

_extract_visualizations(outputs) ==
    Flatten([i \in 1..Len(outputs) |-> VisualizationOf(outputs[i])])

\* json.loads(v) of a value that is not a dict: a str that is not JSON text
\* raises JSONDecodeError, any other type raises TypeError
JsonLoadsError(v) == IF v.type \in {"str", "bytes"} THEN "JSONDecodeError" ELSE "TypeError"

\* metrics[key] = value
DictSet(entries, key, value) == {e \in entries : e[1] # key} \cup {<<key, value>>}

RECURSIVE FoldOtherJson(_, _, _)
\* the loop over the other .json outputs, from entry number i; the result is
\* the metrics dict or the exception that leaves the loop
FoldOtherJson(outputs, i, metrics) ==
    IF i > Len(outputs) THEN [raised |-> "", metrics |-> metrics]
    ELSE LET e == outputs[i] IN
         IF EndsWith(e.name, ".json") /\ e.name # "metrics.json"
         THEN IF e.value.type = "dict"
              THEN FoldOtherJson(outputs, i + 1,
                                 DictSet(metrics, Replace(e.name, ".json", ""), e.value))
              ELSE IF JsonLoadsError(e.value) = "JSONDecodeError"
                   THEN FoldOtherJson(outputs, i + 1, metrics)
                   ELSE [raised |-> JsonLoadsError(e.value), metrics |-> {}]
         ELSE FoldOtherJson(outputs, i + 1, metrics)

_extract_metrics(outputs) ==
    IF "metrics.json" \in Keys(outputs)
    THEN LET m == Lookup(outputs, "metrics.json") IN
         IF m.type = "dict" THEN FoldOtherJson(outputs, 1, m.entries)
         ELSE IF JsonLoadsError(m) = "JSONDecodeError" THEN FoldOtherJson(outputs, 1, {})
         ELSE [raised |-> JsonLoadsError(m), metrics |-> {}]
    ELSE FoldOtherJson(outputs, 1, {})

\* the entry one output adds in _extract_data_outputs
DataOutputOf(entry) ==
    IF EndsWith(entry.name, ".csv")
    THEN <<[name |-> entry.name, type |-> "csv", content |-> entry.value]>>
    ELSE IF EndsWith(entry.name, ".txt") /\ entry.name # "insights.txt"
    THEN <<[name |-> entry.name, type |-> "text", content |-> entry.value]>>
    ELSE <<>>

_extract_data_outputs(outputs) == Flatten([i \in 1..Len(outputs) |-> DataOutputOf(outputs[i])])

NoInsightsText == "No insights generated. Check the visualizations and metrics for analysis results."

_extract_insights(outputs) ==
    IF "insights.txt" \in Keys(outputs) THEN Lookup(outputs, "insights.txt") ELSE Str(NoInsightsText)

\* an AnalysisResult; error "" is None
AnalysisResult(success, q, insightsValue, visualizations, metrics, data_outputs, error, raw_output) ==
    [status |-> "returned", success |-> success, query |-> q, insights |-> insightsValue,
     visualizations |-> visualizations, metrics |-> metrics, data_outputs |-> data_outputs,
     error |-> error, raw_output |-> raw_output]

\* no AnalysisResult yet
NoResult ==
    [status |-> "none", success |-> FALSE, query |-> "", insights |-> NoneValue,
     visualizations |-> <<>>, metrics |-> {}, data_outputs |-> <<>>,
     error |-> "", raw_output |-> ""]

\* ResultProcessor.process: raised is the class of the exception that leaves it ("" if none)
process(q, er, insightsValue) ==
    IF ~er.success
    THEN [raised |-> "",
          result |-> AnalysisResult(FALSE, q,
                        Str("Analysis failed: " \o (IF er.error # "" THEN er.error ELSE "Unknown error")),
                        <<>>, {}, <<>>, er.error, er.stderr)]
    ELSE LET m == _extract_metrics(er.outputs) IN
         IF m.raised # "" THEN [raised |-> m.raised, result |-> NoResult]
         ELSE [raised |-> "",
               result |-> AnalysisResult(TRUE, q,
                             IF Truthy(insightsValue) THEN insightsValue
                             ELSE _extract_insights(er.outputs),
                             _extract_visualizations(er.outputs), m.metrics,
                             _extract_data_outputs(er.outputs), "", er.stdout)]

-----------------------------------------------------------------------------
(* Exceptions *)

Exc(cls, text) == [cls |-> cls, text |-> text]
NoException    == Exc("", "")

\* the classes below Exception that the calls of the pipeline raise
ExceptionSubclasses ==
    {"AttributeError", "APIConnectionError", "RecursionError", "OSError", "PicklingError",
     "ImageNotFound", "APIError", "ReadTimeout", "JSONDecodeError", "NameError", "TypeError"}

\* classes derived from BaseException only; "except Exception" lets them through
BaseExceptionOnly == {"CancelledError", "KeyboardInterrupt", "SystemExit"}

DataContextError == Exc("AttributeError", "'NoneType' object has no attribute 'columns'")
LlmError         == Exc("APIConnectionError", "Connection error.")
RecursionErr     == Exc("RecursionError", "maximum recursion depth exceeded during ast construction")
MkdtempError     == Exc("OSError", "[Errno 28] No space left on device")
PickleError      == Exc("PicklingError", "Can't pickle local object")
ImageError       == Exc("ImageNotFound", "404 Client Error: No such image: python-analysis-sandbox:latest")
WaitTimeout      == Exc("ReadTimeout", "Read timed out. (read timeout=300)")
LogsError        == Exc("APIError", "500 Server Error: cannot read logs")
StopError        == Exc("APIError", "500 Server Error: cannot stop container")
JsonError        == Exc("JSONDecodeError", "Expecting value: line 1 column 1 (char 0)")
JsonNameError    == Exc("NameError", "name 'json' is not defined")
JsonTypeError    == Exc("TypeError", "the JSON object must be str, bytes or bytearray, not list")

-----------------------------------------------------------------------------
(* SandboxExecutor: results *)

TIMEOUT_SECONDS == 300
\* container.stop(timeout=5)
StopGrace == 5

\* str(uuid.uuid4())[:8] of the one execute() call of a run
ExecutionId == "3f2a9c1e"
ContainerName == "sandbox_" \o ExecutionId

NoMetadata == [present |-> FALSE, execution_id |-> "", exit_code |-> 0]
Metadata(execution_id, status_code) ==
    [present |-> TRUE, execution_id |-> execution_id, exit_code |-> status_code]

\* an ExecutionResult; error "" is None, metadata NoMetadata is None
ExecutionResult(success, stdout, stderr, outputs, error, metadata) ==
    [status |-> "returned", success |-> success, stdout |-> stdout, stderr |-> stderr,
     outputs |-> outputs, error |-> error, metadata |-> metadata]

NoExecutionResult ==
    [status |-> "none", success |-> FALSE, stdout |-> "", stderr |-> "",
     outputs |-> <<>>, error |-> "", metadata |-> NoMetadata]

\* the failure result built without its error field
FailedExecution_mut(e) == ExecutionResult(FALSE, "", e.text, <<>>, "", NoMetadata)

\* the ExecutionResult built in "except Exception as e" of _run_container and of execute
FailedExecution(e) == ExecutionResult(FALSE, "", e.text, <<>>, e.text, NoMetadata)

\* exit_code == 0 for the StatusCode that wait returned
ExitSuccess(status_code) == status_code = 0

\* the ExecutionResult built after the outputs were collected
CompletedExecution(status_code, logs, outputs) ==
    ExecutionResult(ExitSuccess(status_code), logs, "", outputs, "",
                    Metadata(ExecutionId, status_code))

\* what _run_container does after "except Exception as e" of the wait block caught e
AfterWaitError == "stop"

-----------------------------------------------------------------------------
(* What the sandboxed program can leave in outputs/ *)

File(name, content) == [name |-> name, content |-> content]

InsightsFiles == {<<>>, <<File("insights.txt", Str(""))>>,
                  <<File("insights.txt", Str("Returns rose 4%."))>>}

MetricsFiles == {<<>>, <<File("metrics.json", Dict({}))>>,
                 <<File("metrics.json", Dict({<<"x", Num("1.5")>>}))>>,
                 <<File("metrics.json", List(<<Num("1")>>))>>,
                 <<File("metrics.json", Malformed)>>}

PlotFiles == {<<>>, <<File("plot_perf.png", Bytes("PNG"))>>}

\* further files a script writes: a JPEG chart, a plotly page next to a PNG,
\* and JSON files next to insights.txt and metrics.json
ExtraListings ==
    { <<File("chart.jpg", Bytes("JFIF"))>>,
      <<File("report.html", Str("<html>")), File("plot_perf.png", Bytes("PNG"))>>,
      <<File("insights.txt", Str("Returns rose 4%.")),
        File("metrics.json", Dict({<<"x", Num("1.5")>>})), File("summary.json", Dict({<<"n", Num("2")>>}))>>,
      <<File("insights.txt", Str("Returns rose 4%.")),
        File("metrics.json", Dict({<<"x", Num("1.5")>>})), File("x.json", Dict({<<"n", Num("2")>>}))>> }

\* outputs_dir.iterdir()
Listings == {i \o m \o p : i \in InsightsFiles, m \in MetricsFiles, p \in PlotFiles} \cup ExtraListings

StatusCodes == {0, 1}

ConsoleLog == "Analysis complete!"

-----------------------------------------------------------------------------
(* CodeGenerator *)

StmtOf(text) == CHOOSE st \in Statements : st.text = text

\* the programs the code-generation call returns in the pipeline
GeneratedPrograms ==
    { <<StmtOf("import pandas as pd")>>,
      <<StmtOf("import pandas as pd"), StmtOf("p.read_text()")>>,
      <<StmtOf("setattr(vars(o), dir(o), locals())"), StmtOf("c = getattr(o, '__class__')")>>,
      <<StmtOf("import os"), StmtOf("os.system(cmd)")>>,
      <<StmtOf("exec(src)")>>,
      <<StmtOf("def f(:")>>,
      <<StmtOf("x = 1+1+1+1+1+1+1+1")>> }

\* the text of an LLM response: the program, bare or inside a markdown fence
\* ("fence" stands for three backquotes)
Fences == {[lead |-> "", trail |-> ""], [lead |-> "fence python", trail |-> "fence"],
           [lead |-> "fence", trail |-> "fence"]}

Response(fence, program) == [lead |-> fence.lead, program |-> program, trail |-> fence.trail]

\* _extract_code: drops a leading and a trailing fence
_extract_code(response) == response.program

SummaryText    == "The portfolio returned 4% over the period."
FallbackText   == "Could not generate insights from the analysis results."

\* how generate_insights proceeds for these outputs: "file" returns insights.txt,
\* "NameError" is json.dumps(metrics) evaluated in the prompt, the module never
\* imports json, "llm" is the summarization call
InsightsPlan(outputs) ==
    LET metrics       == Get(outputs, "metrics.json", Dict({}))
        insights_file == Get(outputs, "insights.txt", Str(""))
    IN  IF Truthy(insights_file) THEN "file"
        ELSE IF Truthy(metrics) THEN "NameError"
        ELSE "llm"

-----------------------------------------------------------------------------
(* PythonAnalysisAgent.analyze *)

Queries == {"plot returns", "sharpe ratio"}

Call(name, arg, outcome) == [call |-> name, arg |-> arg, outcome |-> outcome]

Log(name, arg, outcome) == trace' = Append(trace, Call(name, arg, outcome))

\* the deadline of analyze (timeout seconds) has elapsed while the call made at
\* position was outstanding
Expired(position) ==
    \E i \in 1..Len(trace) : trace[i] = Call("deadline", TIMEOUT_SECONDS, position)

\* the calls that are handed the deadline: container.wait(timeout=timeout);
\* client.messages.create is called without a timeout in generate and in
\* generate_insights, and analyze passes its timeout to execute only
DeadlineBounds(position) == position = "wait"

\* the call at position can still return normally
MayReturn(position) == ~(DeadlineBounds(position) /\ Expired(position))

\* an except clause that names the errors of the LLM and of the file system only
AnalyzeCatches_mut(cls) == cls \in {"APIConnectionError", "OSError"}

\* "except Exception" of analyze
AnalyzeCatches(cls) == cls \in ExceptionSubclasses

\* a short-circuit that only rejects critical code
Rejects_mut(vr) == vr.risk_level = "critical"

\* "if not validation_result.is_safe": analyze returns without executing
Rejects(vr) == ~vr.is_safe

\* the AnalysisResult built in "except Exception as e" of analyze
ExceptResult(q, e) ==
    AnalysisResult(FALSE, q, Str("Analysis failed with error: " \o e.text),
                   <<>>, {}, <<>>, e.text, "")

\* an exception e leaves a step of analyze
AnalyzeExcept(q, e) ==
    /\ analyze_exc' = e
    /\ IF AnalyzeCatches(e.cls)
       THEN /\ pc' = "done"
            /\ result' = ExceptResult(q, e)
       ELSE /\ pc' = "propagated"
            /\ result' = NoResult

\* the bullet list of violations ("* " stands for the bullet character)
ViolationLines(violations) ==
    JoinLines([i \in 1..Len(violations) |-> "* " \o violations[i]])

RejectedResult(q, vr) ==
    AnalysisResult(FALSE, q,
                   Str("Code validation failed. Security violations detected:\n"
                       \o ViolationLines(vr.violations)),
                   <<>>, {}, <<>>, "Code safety validation failed", "")

\* Step 1: _prepare_data_context
PrepareDataContext ==
    /\ pc = "idle"
    /\ \E q \in Queries :
        /\ query' = q
        /\ \/ /\ pc' = "generate"
              /\ UNCHANGED <<result, analyze_exc>>
           \/ AnalyzeExcept(q, DataContextError)
    /\ UNCHANGED <<batch_vars, server_vars, daemon_vars, pool_vars, src, report, code, validation_result, workspace, container, files,
                   exc, exit_code, pending, execution_result, insights, trace>>

\* Step 2: code_generator.generate
Generate ==
    /\ pc = "generate"
    /\ \/ /\ MayReturn("generate")
          /\ \E program \in GeneratedPrograms, fence \in Fences :
                code' = _extract_code(Response(fence, program))
          /\ pc' = "validate"
          /\ Log("llm.generate", 0, "ok")
          /\ UNCHANGED <<result, analyze_exc>>
       \/ /\ AnalyzeExcept(query, LlmError)
          /\ Log("llm.generate", 0, "raised")
          /\ UNCHANGED code
    /\ UNCHANGED <<batch_vars, server_vars, daemon_vars, pool_vars, src, report, query, validation_result, workspace, container, files,
                   exc, exit_code, pending, execution_result, insights>>

\* Step 2.5: safety_validator.validate and the short-circuit on unsafe code
Validate ==
    /\ pc = "validate"
    /\ LET vr == validate(code) IN
        /\ validation_result' = vr
        /\ IF vr.status = "raised"
           THEN AnalyzeExcept(query, Exc(vr.error, RecursionErr.text))
           ELSE /\ analyze_exc' = analyze_exc
                /\ IF Rejects(vr)
                   THEN pc' = "done" /\ result' = RejectedResult(query, vr)
                   ELSE pc' = "execute" /\ result' = result
    /\ UNCHANGED <<batch_vars, server_vars, daemon_vars, pool_vars, src, report, query, code, workspace, container, files,
                   exc, exit_code, pending, execution_result, insights, trace>>

-----------------------------------------------------------------------------
(* SandboxExecutor.execute and _run_container, step by step *)

\* tempfile.mkdtemp, before the try block of execute
Mkdtemp ==
    /\ pc = "execute"
    /\ \/ /\ workspace' = "exists"
          /\ pc' = "prepare_workspace"
          /\ Log("mkdtemp", 0, "ok")
          /\ UNCHANGED <<result, analyze_exc>>
       \/ /\ AnalyzeExcept(query, MkdtempError)
          /\ Log("mkdtemp", 0, "raised")
          /\ UNCHANGED workspace
    /\ UNCHANGED <<batch_vars, server_vars, daemon_vars, pool_vars, src, report, query, code, validation_result, container, files,
                   exc, exit_code, pending, execution_result, insights>>

\* data/, outputs/, script.py and data.pkl are written
PrepareWorkspace ==
    /\ pc = "prepare_workspace"
    /\ \/ /\ pc' = "run"
          /\ UNCHANGED pending
       \/ /\ pending' = FailedExecution(PickleError)
          /\ pc' = "rmtree"
    /\ UNCHANGED <<batch_vars, server_vars, daemon_vars, pool_vars, src, report, query, code, validation_result, workspace, container, files,
                   exc, exit_code, analyze_exc, execution_result, insights, result, trace>>

\* docker_client.containers.run(..., detach=True, name="sandbox_<id>"); with
\* detach=True it returns before the program ends and never raises ContainerError
ContainersRun ==
    /\ pc = "run"
    /\ \/ /\ container' = [name |-> ContainerName, state |-> "running"]
          /\ pc' = "wait"
          /\ Log("containers.run", 0, "ok")
          /\ UNCHANGED pending
       \/ /\ pending' = FailedExecution(ImageError)
          /\ pc' = "rmtree"
          /\ Log("containers.run", 0, "raised")
          /\ UNCHANGED container
    /\ UNCHANGED <<batch_vars, server_vars, daemon_vars, pool_vars, src, report, query, code, validation_result, workspace, files,
                   exc, exit_code, analyze_exc, execution_result, insights, result>>

\* container.wait(timeout=timeout): the program has written listing to outputs/
\* by the time wait returns or gives up
Wait ==
    /\ pc = "wait"
    /\ \E listing \in Listings :
        /\ files' = listing
        /\ \/ \E status_code \in StatusCodes :
                /\ MayReturn("wait")
                /\ exit_code' = status_code
                /\ container' = [container EXCEPT !.state = "exited"]
                /\ pc' = "logs"
                /\ Log("wait", TIMEOUT_SECONDS, "ok")
                /\ UNCHANGED exc
           \/ /\ exc' = WaitTimeout
              /\ pc' = AfterWaitError
              /\ Log("wait", TIMEOUT_SECONDS, "raised")
              /\ UNCHANGED <<exit_code, container>>
    /\ UNCHANGED <<batch_vars, server_vars, daemon_vars, pool_vars, src, report, query, code, validation_result, workspace,
                   pending, analyze_exc, execution_result, insights, result>>

\* container.logs(stdout=True, stderr=True)
Logs ==
    /\ pc = "logs"
    /\ \/ /\ pc' = "collect"
          /\ Log("logs", 0, "ok")
          /\ UNCHANGED exc
       \/ /\ exc' = LogsError
          /\ pc' = AfterWaitError
          /\ Log("logs", 0, "raised")
    /\ UNCHANGED <<batch_vars, server_vars, daemon_vars, pool_vars, src, report, query, code, validation_result, workspace, container, files,
                   exit_code, pending, analyze_exc, execution_result, insights, result>>

\* "except Exception as e: container.stop(timeout=5); raise", then the outer
\* "except Exception" turns the exception that left the block into a result
Stop ==
    /\ pc = "stop"
    /\ \/ /\ container' = [container EXCEPT !.state = "exited"]
          /\ pending' = FailedExecution(exc)
          /\ Log("stop", StopGrace, "ok")
       \/ /\ pending' = FailedExecution(StopError)
          /\ Log("stop", StopGrace, "raised")
          /\ UNCHANGED container
    /\ pc' = "remove"
    /\ UNCHANGED <<batch_vars, server_vars, daemon_vars, pool_vars, src, report, query, code, validation_result, workspace, files,
                   exc, exit_code, analyze_exc, execution_result, insights, result>>

\* _collect_outputs and the ExecutionResult of a container that was waited for
Collect ==
    /\ pc = "collect"
    /\ LET collected == _collect_outputs(files) IN
        IF collected.raised
        THEN /\ pending' = FailedExecution(JsonError)
             /\ Log("collect", 0, "raised")
        ELSE /\ pending' = CompletedExecution(exit_code, ConsoleLog, collected.outputs)
             /\ Log("collect", 0, "ok")
    /\ pc' = "remove"
    /\ UNCHANGED <<batch_vars, server_vars, daemon_vars, pool_vars, src, report, query, code, validation_result, workspace, container, files,
                   exc, exit_code, analyze_exc, execution_result, insights, result>>

\* finally of _run_container: container.remove(force=True); a failure is logged
Remove ==
    /\ pc = "remove"
    /\ \/ /\ container' = [container EXCEPT !.state = "removed"]
          /\ Log("remove", 0, "ok")
       \/ /\ Log("remove", 0, "raised")
          /\ UNCHANGED container
    /\ pc' = "rmtree"
    /\ UNCHANGED <<batch_vars, server_vars, daemon_vars, pool_vars, src, report, query, code, validation_result, workspace, files,
                   exc, exit_code, pending, analyze_exc, execution_result, insights, result>>

\* Step 4 of analyze: insights are generated if execution_result.success
InsightsWanted_mut(er) == TRUE

InsightsWanted(er) == er.success

\* finally of execute: shutil.rmtree(workspace); a failure is logged; execute returns
Rmtree ==
    /\ pc = "rmtree"
    /\ \/ /\ workspace' = "removed"
          /\ Log("rmtree", 0, "ok")
       \/ /\ Log("rmtree", 0, "raised")
          /\ UNCHANGED workspace
    /\ execution_result' = pending
    /\ pc' = IF InsightsWanted(pending) THEN "insights" ELSE "process"
    /\ UNCHANGED <<batch_vars, server_vars, daemon_vars, pool_vars, src, report, query, code, validation_result, container, files,
                   exc, exit_code, pending, analyze_exc, insights, result>>

-----------------------------------------------------------------------------
(* analyze, after execute returned *)

\* Step 4: code_generator.generate_insights, called when the execution succeeded
GenerateInsights ==
    /\ pc = "insights"
    /\ LET plan == InsightsPlan(execution_result.outputs) IN
        \/ /\ plan = "file"
           /\ insights' = Get(execution_result.outputs, "insights.txt", Str(""))
           /\ pc' = "process"
           /\ UNCHANGED <<result, analyze_exc, trace>>
        \/ /\ plan = "NameError"
           /\ AnalyzeExcept(query, JsonNameError)
           /\ UNCHANGED <<insights, trace>>
        \/ /\ plan = "llm"
           /\ \/ /\ MayReturn("insights")
                 /\ insights' = Str(SummaryText)
                 /\ Log("llm.summarize", 0, "ok")
              \/ /\ insights' = Str(FallbackText)
                 /\ Log("llm.summarize", 0, "raised")
           /\ pc' = "process"
           /\ UNCHANGED <<result, analyze_exc>>
    /\ UNCHANGED <<batch_vars, server_vars, daemon_vars, pool_vars, src, report, query, code, validation_result, workspace, container, files,
                   exc, exit_code, pending, execution_result>>

\* Step 5: result_processor.process
Process ==
    /\ pc = "process"
    /\ LET processed == process(query, execution_result, insights) IN
        IF processed.raised # ""
        THEN AnalyzeExcept(query, Exc(processed.raised, JsonTypeError.text))
        ELSE /\ result' = processed.result
             /\ pc' = "done"
             /\ UNCHANGED analyze_exc
    /\ UNCHANGED <<batch_vars, server_vars, daemon_vars, pool_vars, src, report, query, code, validation_result, workspace, container, files,
                   exc, exit_code, pending, execution_result, insights, trace>>

\* the timeout given to analyze elapses while the code-generation request, the
\* container wait or the summarization request is outstanding
DeadlineExpires ==
    /\ \/ pc \in {"generate", "wait"}
       \/ pc = "insights" /\ InsightsPlan(execution_result.outputs) = "llm"
    /\ \A i \in 1..Len(trace) : trace[i].call # "deadline"
    /\ Log("deadline", TIMEOUT_SECONDS, pc)
    /\ UNCHANGED <<batch_vars, server_vars, daemon_vars, pool_vars, src, report, pc, query, code, validation_result,
                   workspace, container, files, exc, exit_code, pending, analyze_exc,
                   execution_result, insights, result>>

-----------------------------------------------------------------------------
(* Specification of one analyze() call *)

NoContainer == [name |-> "", state |-> "none"]

\* asyncio.Semaphore: _value and _waiters (one future per waiting task)
Semaphore(value, waiters) == [value |-> value, waiters |-> waiters]

\* no batch_analyze call is in progress
BatchIdle ==
    /\ queries = <<>>
    /\ max_concurrent = 0
    /\ batch_pc = "idle"
    /\ semaphore = Semaphore(0, <<>>)
    /\ tasks = <<>>
    /\ ready = <<>>
    /\ running = 0
    /\ final_results = <<>>

\* the session ids clients use; Uuid4 is the id str(uuid.uuid4()) yields
Uuid4 == "7c9e6679"
SessionIds == {"s1", Uuid4}

\* chat_sessions = {}
NoSessions == [s \in {} |-> <<>>]

NoWebSocket ==
    [state |-> "none", session_id |-> "", received |-> "", json |-> "none",
     stored |-> <<>>, sent |-> <<>>, closed_by |-> ""]

NoResponse == [op |-> "none", session_id |-> "", status |-> 0, messages |-> <<>>]

\* the backend has just started
ServerIdle ==
    /\ chat_sessions = NoSessions
    /\ websocket = NoWebSocket
    /\ http_response = NoResponse
    /\ appended = [s \in SessionIds |-> <<>>]
    /\ since_delete = [s \in SessionIds |-> "never deleted"]

\* the quick_analyze() calls that share one container daemon
Clients == 1..MaxClients

Client(position, todo, success) == [pc |-> position, todo |-> todo, success |-> success]

\* no container exists and no call has started
DaemonIdle ==
    /\ daemon = [c \in Clients |-> "none"]
    /\ clients = [c \in Clients |-> Client("idle", {}, FALSE)]

\* the threads reading DatabaseConnectionPool.engine, and the one calling close()
Readers == 1..MaxReaders
Closer == MaxReaders + 1

Thread(position, value) == [pc |-> position, value |-> value]

\* DatabaseConnectionPool.__init__: no engine yet, the lock is free
PoolIdle ==
    /\ _engine = 0
    /\ _lock = 0
    /\ disposed = {}
    /\ threads = [th \in Readers \cup {Closer} |-> Thread("idle", 0)]

PipelineInit ==
    /\ pc = "idle"
    /\ query = ""
    /\ code = <<>>
    /\ validation_result = NoValidation
    /\ workspace = "none"
    /\ container = NoContainer
    /\ files = <<>>
    /\ exc = NoException
    /\ exit_code = 0
    /\ pending = NoExecutionResult
    /\ analyze_exc = NoException
    /\ execution_result = NoExecutionResult
    /\ insights = NoneValue
    /\ result = NoResult
    /\ trace = <<>>

Init ==
    /\ src = <<>>
    /\ report = NoValidation
    /\ PipelineInit
    /\ BatchIdle
    /\ ServerIdle
    /\ DaemonIdle
    /\ PoolIdle

Next ==
    \/ PrepareDataContext
    \/ Generate
    \/ Validate
    \/ Mkdtemp
    \/ PrepareWorkspace
    \/ ContainersRun
    \/ Wait
    \/ Logs
    \/ Stop
    \/ Collect
    \/ Remove
    \/ Rmtree
    \/ GenerateInsights
    \/ Process
    \/ DeadlineExpires

Spec == Init /\ [][Next]_vars

-----------------------------------------------------------------------------
(* Specification of SafetyValidator.validate on every bounded source *)

ValidateCall ==
    /\ report.status = "none"
    /\ report' = validate(src)
    /\ UNCHANGED <<batch_vars, server_vars, daemon_vars, pool_vars, src, pc, query, code, validation_result, workspace, container, files,
                   exc, exit_code, pending, analyze_exc, execution_result, insights,
                   result, trace>>

InitValidator ==
    /\ src \in Sources
    /\ report = NoValidation
    /\ PipelineInit
    /\ BatchIdle
    /\ ServerIdle
    /\ DaemonIdle
    /\ PoolIdle

NextValidator == ValidateCall

SpecValidator == InitValidator /\ [][NextValidator]_vars

-----------------------------------------------------------------------------
(* PythonAnalysisAgent.batch_analyze on the asyncio event loop               *)
(*                                                                           *)
(* The event loop runs one task at a time and switches task only where the  *)
(* running task awaits a future that is not done.  In analyze_with_semaphore *)
(* that is semaphore.acquire() on a locked semaphore and nothing else:       *)
(* client.messages.create (code_generator.py:45, 270) and containers.run,    *)
(* container.wait, container.logs (executor.py:178-198) are synchronous      *)
(* calls made inside "async def", so a task that is in one of them keeps the *)
(* thread of the loop until the call returns.                                *)

MaxQueries == 2          \* longest queries list handed to batch_analyze
MaxConcurrent == 2       \* largest max_concurrent handed to batch_analyze

\* stands for the Python value None passed as an element of queries
NoneQuery == "None"

BatchQueries == Queries \cup {NoneQuery}

\* query[:100] of the log line that precedes the try block of analyze
QueryTypeError == Exc("TypeError", "'NoneType' object is not subscriptable")

\* the programs the code-generation call returns in a batch
BatchPrograms ==
    { <<StmtOf("import pandas as pd")>>,
      <<StmtOf("import os"), StmtOf("os.system(cmd)")>>,
      <<StmtOf("x = 1+1+1+1+1+1+1+1")>> }

\* what execute returns once the container was started
BatchExecutions ==
    { FailedExecution(WaitTimeout),
      CompletedExecution(1, ConsoleLog, <<>>),
      CompletedExecution(0, ConsoleLog, <<>>),
      CompletedExecution(0, ConsoleLog,
          _collect_outputs(<<File("insights.txt", Str("Returns rose 4%."))>>).outputs),
      CompletedExecution(0, ConsoleLog,
          _collect_outputs(<<File("metrics.json", Dict({<<"x", Num("1.5")>>}))>>).outputs) }

\* a task of gather: pc is its position in analyze_with_semaphore, code,
\* execution_result and insights are the locals of its analyze call, result is
\* the AnalysisResult it returned, exc the exception it ended with
Task(position, program, er, insightsValue, analysisResult, e) ==
    [pc |-> position, code |-> program, execution_result |-> er, insights |-> insightsValue,
     result |-> analysisResult, exc |-> e]

CreatedTask == Task("created", <<>>, NoExecutionResult, NoneValue, NoResult, NoException)

\* the positions between "async with semaphore" entered and left
InPipeline == {"analyze", "generate", "validate", "execute", "wait", "insights", "process", "release"}

\* the positions at which the task is inside a synchronous network call: the
\* code-generation request, the wait on the container, the summarization request
InBlockingCall == {"generate", "wait", "insights"}

\* a semaphore that lets every acquire through
Locked_mut(sema) == FALSE

\* Semaphore.locked(): the counter is 0 or a task is queued
Locked(sema) == sema.value = 0 \/ \E k \in 1..Len(sema.waiters) : ~sema.waiters[k].done

\* Semaphore._wake_up_next(): the first waiter that is not done gets the permit
\* and its future is set; woken is the task of that waiter, 0 if there is none
WakeUpNext(sema) ==
    LET pend == {k \in 1..Len(sema.waiters) : ~sema.waiters[k].done} IN
    IF pend = {} THEN [semaphore |-> sema, woken |-> 0]
    ELSE LET k == CHOOSE k \in pend : \A j \in pend : k <= j IN
         [semaphore |-> Semaphore(sema.value - 1, [sema.waiters EXCEPT ![k].done = TRUE]),
          woken |-> sema.waiters[k].task]

\* the waiters without the future of task t (self._waiters.remove(fut))
RemoveWaiter(waiters, t) ==
    LET keep == {k \in 1..Len(waiters) : waiters[k].task # t}
        nth(n) == CHOOSE k \in keep : Cardinality({j \in keep : j <= k}) = n
    IN  [n \in 1..Cardinality(keep) |-> waiters[nth(n)]]

unchanged_by_batch == <<analysis_vars, server_vars, daemon_vars, pool_vars>>

\* batch_analyze up to "await asyncio.gather(...)": the semaphore is built,
\* one coroutine per query is made, gather wraps them into tasks in list order
BatchCall ==
    /\ batch_pc = "call"
    /\ IF max_concurrent < 0
       THEN /\ batch_pc' = "raised"
            /\ UNCHANGED <<semaphore, tasks, ready>>
       ELSE /\ semaphore' = Semaphore(max_concurrent, <<>>)
            /\ tasks' = [i \in 1..Len(queries) |-> CreatedTask]
            /\ ready' = [i \in 1..Len(queries) |-> i]
            /\ batch_pc' = "gather"
    /\ UNCHANGED <<queries, max_concurrent, running, final_results, unchanged_by_batch>>

\* the loop runs the task at the head of its ready queue: a new task enters
\* "async with semaphore" (Semaphore.acquire), a task woken by a release
\* resumes inside acquire
AcquireSemaphore ==
    \E t \in 1..Len(tasks) :
        /\ batch_pc = "gather"
        /\ running = 0
        /\ ready # <<>>
        /\ Head(ready) = t
        /\ IF tasks[t].pc = "created"
           THEN IF ~Locked(semaphore)
                THEN /\ semaphore' = Semaphore(semaphore.value - 1, semaphore.waiters)
                     /\ tasks' = [tasks EXCEPT ![t].pc = "analyze"]
                     /\ running' = t
                     /\ ready' = Tail(ready)
                ELSE /\ semaphore' = Semaphore(semaphore.value,
                                               Append(semaphore.waiters, [task |-> t, done |-> FALSE]))
                     /\ tasks' = [tasks EXCEPT ![t].pc = "blocked"]
                     /\ running' = 0
                     /\ ready' = Tail(ready)
           ELSE LET removed == Semaphore(semaphore.value, RemoveWaiter(semaphore.waiters, t))
                    next    == IF removed.value > 0 THEN WakeUpNext(removed)
                               ELSE [semaphore |-> removed, woken |-> 0]
                IN  /\ semaphore' = next.semaphore
                    /\ tasks' = [tasks EXCEPT ![t].pc = "analyze"]
                    /\ running' = t
                    /\ ready' = IF next.woken = 0 THEN Tail(ready) ELSE Append(Tail(ready), next.woken)
        /\ UNCHANGED <<queries, max_concurrent, batch_pc, final_results, unchanged_by_batch>>

\* the task returns r from analyze: the locals of analyze are gone
TaskReturns(t, r) ==
    tasks' = [tasks EXCEPT ![t] = Task("release", <<>>, NoExecutionResult, NoneValue, r, NoException)]

\* the exception e leaves analyze
TaskRaises(t, e) ==
    tasks' = [tasks EXCEPT ![t] = Task("release", <<>>, NoExecutionResult, NoneValue, NoResult, e)]

TaskUnchanged == <<queries, max_concurrent, batch_pc, semaphore, ready, running, final_results,
                   unchanged_by_batch>>

\* analyze is entered: the log line slices the query, then the data context is
\* prepared (data is a DataFrame) and the code-generation request is sent
AnalyzeEnter ==
    \E t \in 1..Len(tasks) :
        /\ running = t
        /\ tasks[t].pc = "analyze"
        /\ IF queries[t] = NoneQuery
           THEN TaskRaises(t, QueryTypeError)
           ELSE tasks' = [tasks EXCEPT ![t].pc = "generate"]
        /\ UNCHANGED TaskUnchanged

\* client.messages.create of generate returns or raises
TaskGenerate ==
    \E t \in 1..Len(tasks) :
        /\ running = t
        /\ tasks[t].pc = "generate"
        /\ \/ \E program \in BatchPrograms :
                tasks' = [tasks EXCEPT ![t].pc = "validate", ![t].code = program]
           \/ TaskReturns(t, ExceptResult(queries[t], LlmError))
        /\ UNCHANGED TaskUnchanged

\* safety_validator.validate and the short-circuit on unsafe code
TaskValidate ==
    \E t \in 1..Len(tasks) :
        /\ running = t
        /\ tasks[t].pc = "validate"
        /\ LET vr == validate(tasks[t].code) IN
            IF vr.status = "raised"
            THEN TaskReturns(t, ExceptResult(queries[t], Exc(vr.error, RecursionErr.text)))
            ELSE IF Rejects(vr)
            THEN TaskReturns(t, RejectedResult(queries[t], vr))
            ELSE tasks' = [tasks EXCEPT ![t].pc = "execute"]
        /\ UNCHANGED TaskUnchanged

\* execute up to containers.run: the container is started and waited for, or
\* the start fails and execute returns a failed ExecutionResult
TaskExecute ==
    \E t \in 1..Len(tasks) :
        /\ running = t
        /\ tasks[t].pc = "execute"
        /\ \/ tasks' = [tasks EXCEPT ![t].pc = "wait"]
           \/ tasks' = [tasks EXCEPT ![t].pc = "process",
                                     ![t].execution_result = FailedExecution(ImageError)]
        /\ UNCHANGED TaskUnchanged

\* container.wait returns or gives up, and execute returns its ExecutionResult
TaskWait ==
    \E t \in 1..Len(tasks) :
        /\ running = t
        /\ tasks[t].pc = "wait"
        /\ \E er \in BatchExecutions :
                tasks' = [tasks EXCEPT ![t].pc = IF er.success THEN "insights" ELSE "process",
                                       ![t].execution_result = er]
        /\ UNCHANGED TaskUnchanged

\* generate_insights after a successful execution
TaskInsights ==
    \E t \in 1..Len(tasks) :
        /\ running = t
        /\ tasks[t].pc = "insights"
        /\ LET outputs == tasks[t].execution_result.outputs
               plan    == InsightsPlan(outputs)
           IN  \/ /\ plan = "file"
                  /\ tasks' = [tasks EXCEPT ![t].pc = "process",
                                            ![t].insights = Get(outputs, "insights.txt", Str(""))]
               \/ /\ plan = "NameError"
                  /\ TaskReturns(t, ExceptResult(queries[t], JsonNameError))
               \/ /\ plan = "llm"
                  /\ \E text \in {SummaryText, FallbackText} :
                        tasks' = [tasks EXCEPT ![t].pc = "process", ![t].insights = Str(text)]
        /\ UNCHANGED TaskUnchanged

\* result_processor.process and the return of analyze
TaskProcess ==
    \E t \in 1..Len(tasks) :
        /\ running = t
        /\ tasks[t].pc = "process"
        /\ LET processed == process(queries[t], tasks[t].execution_result, tasks[t].insights) IN
            IF processed.raised # ""
            THEN TaskReturns(t, ExceptResult(queries[t], Exc(processed.raised, JsonTypeError.text)))
            ELSE TaskReturns(t, processed.result)
        /\ UNCHANGED TaskUnchanged

\* "async with semaphore" is left (Semaphore.release) and the task is done:
\* the loop gets its thread back
ReleaseSemaphore ==
    \E t \in 1..Len(tasks) :
        /\ running = t
        /\ tasks[t].pc = "release"
        /\ LET next == WakeUpNext(Semaphore(semaphore.value + 1, semaphore.waiters)) IN
            /\ semaphore' = next.semaphore
            /\ ready' = IF next.woken = 0 THEN ready ELSE Append(ready, next.woken)
        /\ tasks' = [tasks EXCEPT ![t].pc = "done"]
        /\ running' = 0
        /\ UNCHANGED <<queries, max_concurrent, batch_pc, final_results, unchanged_by_batch>>

\* gather without return_exceptions
ReturnExceptions_mut == FALSE

\* gather(..., return_exceptions=True)
ReturnExceptions == TRUE

\* the failure AnalysisResult built from the exception at index 1 whatever i is
Converted_mut(i, e) ==
    AnalysisResult(FALSE, queries[1], Str("Error: " \o e.text), <<>>, {}, <<>>, e.text, "")

\* the failure AnalysisResult that the loop over results builds for the
\* exception e found at index i
Converted(i, e) ==
    AnalysisResult(FALSE, queries[i], Str("Error: " \o e.text), <<>>, {}, <<>>, e.text, "")

\* results[i] of gather is what task i returned or raised; final_results
FinalResults ==
    [i \in 1..Len(tasks) |->
        IF tasks[i].exc # NoException THEN Converted(i, tasks[i].exc) ELSE tasks[i].result]

\* gather is done when every task is done (with return_exceptions false, as
\* soon as a task ended with an exception, which batch_analyze then raises);
\* batch_analyze converts the exceptions and returns
GatherReturns ==
    /\ batch_pc = "gather"
    /\ running = 0
    /\ IF \A t \in 1..Len(tasks) : tasks[t].pc = "done"
       THEN /\ batch_pc' = IF ReturnExceptions \/ \A t \in 1..Len(tasks) : tasks[t].exc = NoException
                           THEN "returned" ELSE "raised"
            /\ final_results' = IF batch_pc' = "returned" THEN FinalResults ELSE <<>>
       ELSE /\ ~ReturnExceptions
            /\ \E t \in 1..Len(tasks) : tasks[t].pc = "done" /\ tasks[t].exc # NoException
            /\ batch_pc' = "raised"
            /\ final_results' = <<>>
    /\ UNCHANGED <<queries, max_concurrent, semaphore, tasks, ready, running, unchanged_by_batch>>

InitBatch ==
    /\ src = <<>>
    /\ report = NoValidation
    /\ PipelineInit
    /\ ServerIdle
    /\ DaemonIdle
    /\ PoolIdle
    /\ queries \in SeqsUpTo(BatchQueries, MaxQueries)
    /\ max_concurrent \in -1..MaxConcurrent
    /\ batch_pc = "call"
    /\ semaphore = Semaphore(0, <<>>)
    /\ tasks = <<>>
    /\ ready = <<>>
    /\ running = 0
    /\ final_results = <<>>

NextBatch ==
    \/ BatchCall
    \/ AcquireSemaphore
    \/ AnalyzeEnter
    \/ TaskGenerate
    \/ TaskValidate
    \/ TaskExecute
    \/ TaskWait
    \/ TaskInsights
    \/ TaskProcess
    \/ ReleaseSemaphore
    \/ GatherReturns

SpecBatch == InitBatch /\ [][NextBatch]_vars

-----------------------------------------------------------------------------
(* Backend: session store, HTTP endpoints and the streaming endpoint         *)
(* (src/backend/main.py)                                                     *)
(*                                                                           *)
(* Every endpoint is an "async def" run on the event loop.  The handlers     *)
(* suspend only in websocket.accept, websocket.receive_text and              *)
(* websocket.send_json: process_with_agent is awaited but contains no await, *)
(* so the appends of one request or frame are not interleaved with another   *)
(* handler, and one action below is one handler run between two suspensions. *)
(* The timestamp of a message is left out.                                   *)

MaxMessages == 3         \* handlers are not started on a session that would grow beyond this

Message(role, content) == [role |-> role, content |-> content]

PortfolioReply ==
    "I can help you analyze your portfolio. The system currently shows you have 3 active portfolios with a total value of $150,000. Would you like me to show you detailed performance metrics?"

ReturnReply ==
    "Based on your portfolio data, your year-to-date return is 12.5%, outperforming the S&P 500 by 2.3%. Would you like me to break this down by asset class?"

RiskReply ==
    "Your portfolio has a beta of 0.95 and a Sharpe ratio of 1.8, indicating good risk-adjusted returns. The current allocation is 60% stocks, 30% bonds, and 10% cash."

DefaultReply(text) ==
    "I understand you're asking about: '" \o text
        \o "'. I'm a financial insights agent that can help you with portfolio analysis, performance metrics, risk assessment, and market comparisons. What would you like to know?"

\* process_with_agent(message, session_id): the reply, or the AttributeError of
\* message.lower() on a message that is not a str
process_with_agent(message) ==
    IF message.type # "str"
    THEN [raised |-> TRUE,
          text |-> IF message.type = "num" THEN "'int' object has no attribute 'lower'"
                   ELSE "'NoneType' object has no attribute 'lower'"]
    ELSE [raised |-> FALSE,
          text |-> IF Contains(Lower(message.text), "portfolio") THEN PortfolioReply
                   ELSE IF Contains(Lower(message.text), "return") THEN ReturnReply
                   ELSE IF Contains(Lower(message.text), "risk") THEN RiskReply
                   ELSE DefaultReply(message.text)]

\* the message field of the bodies sent to POST /api/chat (a str, by the ChatMessage model)
ChatTexts == {"my portfolio"}

\* the session_id field of those bodies; "" stands for an absent or empty one
ChatSessionIds == {"", "s1"}

\* the session id of the streaming connections
WebSocketSessionIds == {"s1"}

\* an inbound text frame: json is what json.loads makes of it
Frame(text, json, has_message, message) ==
    [text |-> text, json |-> json, has_message |-> has_message, message |-> message]

Frames ==
    { Frame("{\"message\": \"risk\"}", "object", TRUE, Str("risk")),
      Frame("{}", "object", FALSE, NoneValue),
      Frame("{\"message\": 5}", "object", TRUE, Num("5")),
      Frame("[1]", "array", FALSE, NoneValue),
      Frame("not json", "invalid", FALSE, NoneValue) }

\* an outbound frame (its timestamp left out)
OutFrame(type, content) == [type |-> type, content |-> content]

HttpResponse(op, session_id, status, messages) ==
    [op |-> op, session_id |-> session_id, status |-> status, messages |-> messages]

\* the connection and the handler of websocket_chat: received and json describe
\* the last inbound frame, stored the roles of the messages appended for it,
\* sent the frames emitted for it, closed_by who ended the receive loop
WebSocket(state, session_id, received, json, stored, sent, closed_by) ==
    [state |-> state, session_id |-> session_id, received |-> received, json |-> json,
     stored |-> stored, sent |-> sent, closed_by |-> closed_by]

\* chat_sessions[session_id] = []
WithSession(sessions, session_id) ==
    [s \in DOMAIN sessions \cup {session_id} |->
        IF s \in DOMAIN sessions THEN sessions[s] ELSE <<>>]

\* chat_sessions[session_id].append(message)
Appended(sessions, session_id, message) ==
    [sessions EXCEPT ![session_id] = Append(@, message)]

\* a delete that empties the list and keeps the key
Without_mut(sessions, session_id) == [sessions EXCEPT ![session_id] = <<>>]

\* del chat_sessions[session_id]
Without(sessions, session_id) == [s \in DOMAIN sessions \ {session_id} |-> sessions[s]]

\* the session would stay within MaxMessages after a request on it
Room(session_id) ==
    session_id \in DOMAIN chat_sessions => Len(chat_sessions[session_id]) + 2 <= MaxMessages

\* the history of an id once a message is stored for it
AfterMessage(session_id) ==
    [since_delete EXCEPT ![session_id] = IF @ = "never deleted" THEN @ ELSE "message"]

unchanged_by_server == <<analysis_vars, batch_vars, daemon_vars, pool_vars>>

\* POST /api/chat
chat ==
    \E text \in ChatTexts, requested \in ChatSessionIds :
        LET session_id == IF requested # "" THEN requested ELSE Uuid4
            created    == WithSession(chat_sessions, session_id)
            user       == Message("user", Str(text))
            reply      == process_with_agent(Str(text))
            assistant  == Message("assistant", Str(reply.text))
        IN  /\ requested = "" => Uuid4 \notin DOMAIN chat_sessions
            /\ Room(session_id)
            /\ chat_sessions' = Appended(Appended(created, session_id, user), session_id, assistant)
            /\ appended' = [appended EXCEPT ![session_id] = @ \o <<user, assistant>>]
            /\ since_delete' = AfterMessage(session_id)
            /\ http_response' = HttpResponse("chat", session_id, 200, <<assistant>>)
            /\ UNCHANGED <<websocket, unchanged_by_server>>

\* the "messages" field of the body of GET /api/sessions/{session_id}
HistoryBody(session_id) == chat_sessions[session_id]

\* GET /api/sessions/{session_id}
get_session_history ==
    \E session_id \in SessionIds :
        /\ http_response' =
              IF session_id \notin DOMAIN chat_sessions
              THEN HttpResponse("get", session_id, 404, <<>>)
              ELSE HttpResponse("get", session_id, 200, HistoryBody(session_id))
        /\ UNCHANGED <<chat_sessions, websocket, appended, since_delete, unchanged_by_server>>

\* DELETE /api/sessions/{session_id}
delete_session ==
    \E session_id \in SessionIds :
        IF session_id \notin DOMAIN chat_sessions
        THEN /\ http_response' = HttpResponse("delete", session_id, 404, <<>>)
             /\ UNCHANGED <<chat_sessions, websocket, appended, since_delete, unchanged_by_server>>
        ELSE /\ chat_sessions' = Without(chat_sessions, session_id)
             /\ appended' = [appended EXCEPT ![session_id] = <<>>]
             /\ since_delete' = [since_delete EXCEPT ![session_id] = "deleted"]
             /\ http_response' = HttpResponse("delete", session_id, 200, <<>>)
             /\ UNCHANGED <<websocket, unchanged_by_server>>

\* websocket_chat up to its first receive_text: the connection is accepted and
\* the session is initialized if it does not exist
websocket_chat_accept ==
    \E session_id \in WebSocketSessionIds :
        /\ websocket.state \in {"none", "closed"}
        /\ websocket' = WebSocket("open", session_id, "", "none", <<>>, <<>>, "")
        /\ chat_sessions' = WithSession(chat_sessions, session_id)
        /\ since_delete' =
              IF session_id \notin DOMAIN chat_sessions /\ since_delete[session_id] = "deleted"
              THEN [since_delete EXCEPT ![session_id] = "connected"]
              ELSE since_delete
        /\ UNCHANGED <<http_response, appended, unchanged_by_server>>

\* what one pass of the receive loop does with an inbound frame: the error that
\* leaves the loop body ("" if none), the messages appended before it
HandleFrame(frame, session_id) ==
    LET user_message == IF frame.has_message THEN frame.message ELSE Str("")
        user         == Message("user", user_message)
        reply        == process_with_agent(user_message)
    IN  IF frame.json = "invalid"
        THEN [error |-> "Expecting value: line 1 column 1 (char 0)", messages |-> <<>>]
        ELSE IF frame.json # "object"
        THEN [error |-> "'list' object has no attribute 'get'", messages |-> <<>>]
        ELSE IF session_id \notin DOMAIN chat_sessions
        THEN [error |-> "'" \o session_id \o "'", messages |-> <<>>]
        ELSE IF reply.raised
        THEN [error |-> reply.text, messages |-> <<user>>]
        ELSE [error |-> "", messages |-> <<user, Message("assistant", Str(reply.text))>>]

\* the state of the connection once "except Exception" has sent the error
\* frame: the try block encloses the while loop, so the handler returns
AfterFrameError == "closed"

\* websocket_chat from a receive_text that returns a frame to the next
\* receive_text, or to the return of the handler when "except Exception" is reached
websocket_chat_receive ==
    \E frame \in Frames :
        LET session_id == websocket.session_id
            handled    == HandleFrame(frame, session_id)
            roles      == [k \in 1..Len(handled.messages) |-> handled.messages[k].role]
        IN  /\ websocket.state = "open"
            /\ Room(session_id)
            /\ chat_sessions' =
                  IF handled.messages = <<>> THEN chat_sessions
                  ELSE [chat_sessions EXCEPT ![session_id] = @ \o handled.messages]
            /\ appended' = [appended EXCEPT ![session_id] = @ \o handled.messages]
            /\ since_delete' = IF handled.messages = <<>> THEN since_delete
                               ELSE AfterMessage(session_id)
            /\ websocket' =
                  IF handled.error = ""
                  THEN WebSocket("open", session_id, frame.text, frame.json, roles,
                                 <<OutFrame("message", handled.messages[2].content)>>, "")
                  ELSE WebSocket(AfterFrameError, session_id, frame.text, frame.json, roles,
                                 <<OutFrame("error", Str(handled.error))>>, "handler")
            /\ UNCHANGED <<http_response, unchanged_by_server>>

\* receive_text raises WebSocketDisconnect: the peer closed the connection
websocket_chat_disconnect ==
    /\ websocket.state = "open"
    /\ websocket' = WebSocket("closed", websocket.session_id, "", "none", <<>>, <<>>, "peer")
    /\ UNCHANGED <<chat_sessions, http_response, appended, since_delete, unchanged_by_server>>

InitServer ==
    /\ src = <<>>
    /\ report = NoValidation
    /\ PipelineInit
    /\ BatchIdle
    /\ ServerIdle
    /\ DaemonIdle
    /\ PoolIdle

NextServer ==
    \/ chat
    \/ get_session_history
    \/ delete_session
    \/ websocket_chat_accept
    \/ websocket_chat_receive
    \/ websocket_chat_disconnect

SpecServer == InitServer /\ [][NextServer]_vars

-----------------------------------------------------------------------------
(* Several executions on one container daemon: quick_analyze() is analyze()
   followed by agent.cleanup(), that is SandboxExecutor.cleanup_all() *)

unchanged_by_daemon == <<analysis_vars, batch_vars, server_vars, pool_vars>>

\* docker_client.containers.list(filters={'name': 'sandbox_'}, all=True): every
\* container is named sandbox_<execution_id>, so every existing one matches
ListSandboxContainers == {c \in Clients : daemon[c] \in {"running", "exited"}}

\* _run_container: docker_client.containers.run(..., name=sandbox_<execution_id>)
ClientRun ==
    \E c \in Clients :
        /\ clients[c].pc = "idle"
        /\ \/ /\ daemon' = [daemon EXCEPT ![c] = "running"]
              /\ clients' = [clients EXCEPT ![c].pc = "wait"]
           \/ /\ clients' = [clients EXCEPT ![c].pc = "returned"]
              /\ UNCHANGED daemon
        /\ UNCHANGED unchanged_by_daemon

\* _run_container: container.wait(timeout=timeout) up to the finally clause; a
\* container that no longer exists makes wait and then stop raise
ClientWait ==
    \E c \in Clients :
        /\ clients[c].pc = "wait"
        /\ IF daemon[c] = "running"
           THEN /\ daemon' = [daemon EXCEPT ![c] = "exited"]
                /\ \E ok \in BOOLEAN : clients' = [clients EXCEPT ![c] = Client("remove", {}, ok)]
           ELSE /\ clients' = [clients EXCEPT ![c] = Client("remove", {}, FALSE)]
                /\ UNCHANGED daemon
        /\ UNCHANGED unchanged_by_daemon

\* finally of _run_container: container.remove(force=True), a failure is logged
ClientRemove ==
    \E c \in Clients :
        /\ clients[c].pc = "remove"
        /\ daemon' = IF c \in ListSandboxContainers THEN [daemon EXCEPT ![c] = "removed"] ELSE daemon
        /\ clients' = [clients EXCEPT ![c].pc = "returned"]
        /\ UNCHANGED unchanged_by_daemon

\* finally of quick_analyze: agent.cleanup() -> cleanup_all(), the containers.list call
CleanupList ==
    \E c \in Clients :
        /\ clients[c].pc = "returned"
        /\ clients' = [clients EXCEPT ![c].pc = IF ListSandboxContainers = {} THEN "done" ELSE "cleanup",
                                      ![c].todo = ListSandboxContainers]
        /\ UNCHANGED <<daemon, unchanged_by_daemon>>

\* cleanup_all: one container.remove(force=True) of the loop; removing a
\* container that is already gone raises and the except clause ends the loop
CleanupRemove ==
    \E c \in Clients :
        /\ clients[c].pc = "cleanup"
        /\ \E d \in clients[c].todo :
            IF d \in ListSandboxContainers
            THEN /\ daemon' = [daemon EXCEPT ![d] = "removed"]
                 /\ clients' = [clients EXCEPT ![c].todo = @ \ {d},
                                               ![c].pc = IF clients[c].todo = {d} THEN "done" ELSE "cleanup"]
            ELSE /\ clients' = [clients EXCEPT ![c].todo = {}, ![c].pc = "done"]
                 /\ UNCHANGED daemon
        /\ UNCHANGED unchanged_by_daemon

InitCleanup ==
    /\ src = <<>>
    /\ report = NoValidation
    /\ PipelineInit
    /\ BatchIdle
    /\ ServerIdle
    /\ DaemonIdle
    /\ PoolIdle

NextCleanup ==
    \/ ClientRun
    \/ ClientWait
    \/ ClientRemove
    \/ CleanupList
    \/ CleanupRemove

SpecCleanup == InitCleanup /\ [][NextCleanup]_vars

-----------------------------------------------------------------------------
(* DatabaseConnectionPool: threads reading the engine property, one thread
   calling close(); a step is one read or write of an attribute *)

unchanged_by_pool == <<analysis_vars, batch_vars, server_vars, daemon_vars>>

\* engine, line 56: if self._engine is None
EngineCheck ==
    \E th \in Readers :
        /\ threads[th].pc = "idle"
        /\ threads' = [threads EXCEPT ![th].pc = IF _engine = 0 THEN "lock" ELSE "return"]
        /\ UNCHANGED <<_engine, _lock, disposed, unchanged_by_pool>>

\* engine, line 57: with self._lock
EngineLock ==
    \E th \in Readers :
        /\ threads[th].pc = "lock"
        /\ _lock = 0
        /\ _lock' = th
        /\ threads' = [threads EXCEPT ![th].pc = "recheck"]
        /\ UNCHANGED <<_engine, disposed, unchanged_by_pool>>

\* engine, line 58: if self._engine is None, inside the lock
EngineRecheck ==
    \E th \in Readers :
        /\ threads[th].pc = "recheck"
        /\ threads' = [threads EXCEPT ![th].pc = IF _engine = 0 THEN "create" ELSE "unlock"]
        /\ UNCHANGED <<_engine, _lock, disposed, unchanged_by_pool>>

\* the engines made so far are numbered 1, 2, ...
NewEngine == 1 + Cardinality(disposed) + (IF _engine = 0 THEN 0 ELSE 1)

\* engine, line 59: self._engine = self._create_engine(); _create_engine
\* raises SQLAlchemyError when the engine cannot be made, and the lock is released
EngineCreate ==
    \E th \in Readers :
        /\ threads[th].pc = "create"
        /\ \/ /\ _engine' = NewEngine
              /\ threads' = [threads EXCEPT ![th].pc = "unlock"]
              /\ UNCHANGED _lock
           \/ /\ threads' = [threads EXCEPT ![th].pc = "raised"]
              /\ _lock' = 0
              /\ UNCHANGED _engine
        /\ UNCHANGED <<disposed, unchanged_by_pool>>

\* engine: the end of the with block releases the lock
EngineUnlock ==
    \E th \in Readers :
        /\ threads[th].pc = "unlock"
        /\ _lock' = 0
        /\ threads' = [threads EXCEPT ![th].pc = "return"]
        /\ UNCHANGED <<_engine, disposed, unchanged_by_pool>>

\* engine, line 60: return self._engine
EngineReturn ==
    \E th \in Readers :
        /\ threads[th].pc = "return"
        /\ threads' = [threads EXCEPT ![th] = Thread("returned", _engine)]
        /\ UNCHANGED <<_engine, _lock, disposed, unchanged_by_pool>>

\* close, line 241: if self._engine is not None
CloseCheck ==
    /\ threads[Closer].pc = "idle"
    /\ threads' = [threads EXCEPT ![Closer].pc = IF _engine # 0 THEN "dispose" ELSE "returned"]
    /\ UNCHANGED <<_engine, _lock, disposed, unchanged_by_pool>>

\* close, line 243: self._engine.dispose()
CloseDispose ==
    /\ threads[Closer].pc = "dispose"
    /\ IF _engine # 0
       THEN /\ disposed' = disposed \cup {_engine}
            /\ threads' = [threads EXCEPT ![Closer].pc = "assign"]
       ELSE /\ threads' = [threads EXCEPT ![Closer].pc = "raised"]
            /\ UNCHANGED disposed
    /\ UNCHANGED <<_engine, _lock, unchanged_by_pool>>

\* close, line 244: self._engine = None
CloseAssign ==
    /\ threads[Closer].pc = "assign"
    /\ _engine' = 0
    /\ threads' = [threads EXCEPT ![Closer].pc = "returned"]
    /\ UNCHANGED <<_lock, disposed, unchanged_by_pool>>

InitPool ==
    /\ src = <<>>
    /\ report = NoValidation
    /\ PipelineInit
    /\ BatchIdle
    /\ ServerIdle
    /\ DaemonIdle
    /\ PoolIdle

NextPool ==
    \/ EngineCheck
    \/ EngineLock
    \/ EngineRecheck
    \/ EngineCreate
    \/ EngineUnlock
    \/ EngineReturn
    \/ CloseCheck
    \/ CloseDispose
    \/ CloseAssign

SpecPool == InitPool /\ [][NextPool]_vars

-----------------------------------------------------------------------------
(* Properties *)

\* the current analyze() made the external call name
Called(name) == \E i \in 1..Len(trace) : trace[i].call = name

\* execute() has returned its ExecutionResult to analyze()
ExecuteReturned == execution_result.status = "returned"

\* container.wait gave up at the deadline
TimedOut == \E i \in 1..Len(trace) : trace[i] = Call("wait", TIMEOUT_SECONDS, "raised")

WaitIndex == CHOOSE i \in 1..Len(trace) : trace[i].call = "wait"

\* C1: the sandbox executor runs (workspace created, container launched) only
\* for a program the validator reported safe; for an unsafe report analyze
\* returns a failure AnalysisResult and nothing was launched.
C1_ExecuteOnlyIfSafe ==
    /\ (Called("mkdtemp") \/ Called("containers.run")
            \/ workspace # "none" \/ container.state # "none")
        => (validation_result.status = "returned" /\ validation_result.is_safe)
    /\ (validation_result.status = "returned" /\ ~validation_result.is_safe)
        => /\ pc = "done"
           /\ result.status = "returned"
           /\ ~result.success
           /\ ~Called("mkdtemp") /\ ~Called("containers.run")

C1_Witness ==
    /\ validation_result.status = "returned"
    /\ ~validation_result.is_safe
    /\ validation_result.risk_level = "high"
    /\ pc = "done"
    /\ ~result.success
    /\ container.state = "none"

\* C2 (as claimed): once execute has returned, the workspace directory it
\* created no longer exists, on every exit path.
C2_WorkspaceGone == ExecuteReturned => workspace # "exists"

\* C3 (as claimed): once execute has returned, no container sandbox_<id>
\* exists: every container it started was force-removed.
C3_ContainerGone == ExecuteReturned => container.state \in {"none", "removed"}

\* C4: for every source, valid or not, the report of validate has
\* is_safe true exactly when risk_level is 'safe' or 'low'.
C4_SafeIffLowRisk ==
    report.status = "returned" => (report.is_safe <=> report.risk_level \in {"safe", "low"})

C4_Witness ==
    /\ report.status = "returned"
    /\ report.risk_level = "medium"
    /\ ~report.is_safe
    /\ Len(report.violations) = 0

\* name is the module b of the blocked set or a submodule b.y of it
TopLevelBlocked(name) == \E b \in BLOCKED_IMPORTS : name = b \/ StartsWith(name, b \o ".")

\* the source imports a blocked module: import X, import X.y, from X import z, from X.y import z
HasBlockedImport(source) ==
    \E i \in 1..Len(source) : \E k \in 1..Len(source[i].nodes) :
        LET n == source[i].nodes[k] IN
        \/ n.type = "Import" /\ \E a \in 1..Len(n.names) : TopLevelBlocked(n.names[a])
        \/ n.type = "ImportFrom" /\ n.module # "" /\ TopLevelBlocked(n.module)

\* the source calls a callee whose final identifier is blocked
HasBlockedCall(source) ==
    \E i \in 1..Len(source) : \E k \in 1..Len(source[i].nodes) :
        LET n == source[i].nodes[k] IN
        n.type = "Call" /\ n.func \in {"Name", "Attribute"} /\ n.ident \in BLOCKED_FUNCTIONS

\* C5: every syntactically valid source with a blocked import or a call of a
\* blocked function gets a report with at least one violation and is_safe false.
C5_BlockedIsRejected ==
    (report.status = "returned" /\ ParseOutcome(src) = "ok"
        /\ (HasBlockedImport(src) \/ HasBlockedCall(src)))
    => (Len(report.violations) >= 1 /\ ~report.is_safe)

C5_Witness ==
    /\ report.status = "returned"
    /\ src = <<StmtOf("import json, os.path")>>
    /\ report.violations = <<"Blocked import: os.path">>
    /\ ~report.is_safe

\* C6 (as claimed): the source "import os / os.system(...)" gets is_safe false,
\* the violation "Blocked import: os" and risk_level 'critical'.
C6_ImportOsCritical ==
    (report.status = "returned" /\ src = <<StmtOf("import os"), StmtOf("os.system(cmd)")>>)
    => /\ ~report.is_safe
       /\ \E i \in 1..Len(report.violations) : report.violations[i] = "Blocked import: os"
       /\ report.risk_level = "critical"

C8_NoErrorPropagates ==
    /\ pc # "propagated"
    /\ analyze_exc # NoException
        => /\ pc = "done"
           /\ result.status = "returned"
           /\ ~result.success
           /\ result.error = analyze_exc.text
    /\ (pc = "done" /\ ExecuteReturned /\ ~execution_result.success)
        => /\ result.status = "returned"
           /\ ~result.success
           /\ result.error = execution_result.error

C8_Witness ==
    /\ pc = "done"
    /\ analyze_exc = Exc("TypeError", JsonTypeError.text)
    /\ ExecuteReturned
    /\ ~result.success

\* C9 (as claimed): after a successful execution that wrote no insights.txt,
\* whatever metrics.json holds and however the summarization call ends,
\* insights is the summary or the fallback and analyze returns success true.
C9_InsightsNeverFatal ==
    (pc \in {"done", "propagated"} /\ ExecuteReturned /\ execution_result.success
        /\ "insights.txt" \notin Keys(execution_result.outputs))
    => /\ insights \in {Str(SummaryText), Str(FallbackText)}
       /\ result.status = "returned"
       /\ result.success

\* C10 (as claimed): when a successful program wrote an insights.txt of zero
\* bytes, the AnalysisResult carries that empty text as insights and no
\* summarization call was made.
C10_EmptyInsightsPreferred ==
    (pc = "done" /\ ExecuteReturned /\ execution_result.success /\ result.success
        /\ Get(execution_result.outputs, "insights.txt", NoneValue) = Str(""))
    => /\ result.insights = Str("")
       /\ ~Called("llm.summarize")

\* the .json files of outputs/ that json.load rejects
MalformedJsonFiles ==
    {i \in 1..Len(files) : EndsWith(files[i].name, ".json") /\ files[i].content.type = "malformed"}

\* C11 (as claimed): collecting outputs does not fail on a malformed .json
\* file: after an exit with code 0 the execution is a success, every file of
\* outputs/ is in the outputs map and the malformed file is there as text.
C11_MalformedJsonIsText ==
    (ExecuteReturned /\ Called("collect") /\ exit_code = 0 /\ MalformedJsonFiles # {})
    => /\ execution_result.success
       /\ Keys(execution_result.outputs) = Keys(files)
       /\ \A i \in MalformedJsonFiles :
            Get(execution_result.outputs, files[i].name, NoneValue).type = "str"

\* C12 (as claimed): when the container exited with a non-zero code and its
\* log was read, the ExecutionResult has success false and its outputs map
\* holds every regular file the program wrote to outputs/.
C12_CrashKeepsOutputs ==
    (ExecuteReturned /\ Called("collect") /\ exit_code # 0)
    => /\ ~execution_result.success
       /\ Keys(execution_result.outputs) = Keys(files)

\* the analyses that have entered "async with semaphore" and not left it
Holding == {t \in 1..Len(tasks) : tasks[t].pc \in InPipeline}

\* task t returned a successful AnalysisResult from its analyze
TaskSucceeded(t) == tasks[t].exc = NoException /\ tasks[t].result.success

\* C13: when batch_analyze returns, it returns len(queries) results and the
\* result at each index carries the query of that index, whether the analysis
\* returned a result, returned a failure or raised.
C13_ResultsFollowQueries ==
    batch_pc = "returned"
    => /\ Len(final_results) = Len(queries)
       /\ \A i \in 1..Len(queries) :
            /\ final_results[i].status = "returned"
            /\ final_results[i].query = queries[i]

C13_Witness ==
    /\ batch_pc = "returned"
    /\ Len(queries) = 2
    /\ queries[1] # queries[2]
    /\ tasks[2].exc = QueryTypeError
    /\ final_results[1].success
    /\ ~final_results[2].success

\* C14: at every moment of a batch, the number of analyses that hold the
\* semaphore (entered their pipeline, not yet finished) is at most max_concurrent.
C14_AtMostMaxConcurrent ==
    batch_pc \in {"gather", "returned"} => Cardinality(Holding) <= max_concurrent

C14_Witness ==
    /\ batch_pc = "gather"
    /\ max_concurrent = 1
    /\ Len(queries) = 2
    /\ tasks[1].pc = "wait"
    /\ tasks[2].pc = "created"

\* C15 (as claimed): with max_concurrent >= 2, while one analysis waits on its
\* LLM call or on its container, the event loop is free to run the next task of
\* the batch: that task can enter its pipeline.
C15_WaitDoesNotBlockLoop ==
    \A i \in 1..Len(tasks) :
        (max_concurrent >= 2 /\ tasks[i].pc \in InBlockingCall
            /\ ready # <<>> /\ tasks[Head(ready)].pc = "created")
        => ENABLED AcquireSemaphore

\* C16: a failed analysis (rejected, generation error, failed execution,
\* raised exception) never makes batch_analyze raise; at the return every
\* analysis has run to its end and the success flag at each index is the
\* outcome of the analysis of that index alone.
C16_FailureIsolated ==
    /\ batch_pc = "raised" => max_concurrent < 0
    /\ batch_pc = "returned"
        => \A i \in 1..Len(tasks) :
            /\ tasks[i].pc = "done"
            /\ final_results[i].status = "returned"
            /\ final_results[i].success <=> TaskSucceeded(i)
            /\ TaskSucceeded(i) => final_results[i] = tasks[i].result

C16_Witness ==
    /\ batch_pc = "returned"
    /\ Len(queries) = 2
    /\ tasks[1].exc = QueryTypeError
    /\ ~final_results[1].success
    /\ final_results[2].success

\* even 0-based positions are user, odd positions are assistant
Alternates(messages) ==
    \A k \in 1..Len(messages) : messages[k].role = IF k % 2 = 1 THEN "user" ELSE "assistant"

\* C17 (as claimed): in every reachable state of the session store, whatever
\* the order of the chat requests and streaming frames, the messages of every
\* session alternate in role, starting with user.
C17_RolesAlternate == \A s \in DOMAIN chat_sessions : Alternates(chat_sessions[s])

\* a GET /api/sessions/{id} is answered in this step
ReadsSession == http_response' # http_response /\ http_response'.op = "get"

\* C18 (as claimed): a read of a session that was deleted and got no new
\* message since is answered 404; any other read of an existing session
\* returns the messages appended to it so far, in order, unchanged.
C18_ReadAfterDelete ==
    [][ReadsSession =>
            LET id == http_response'.session_id IN
            IF since_delete[id] \in {"deleted", "connected"}
            THEN http_response'.status = 404
            ELSE id \in DOMAIN chat_sessions
                    => /\ http_response'.status = 200
                       /\ http_response'.messages = appended[id]]_vars

\* C18 (amended): a read of a session that was deleted and for which since
\* then no message was stored and no streaming connection was accepted is
\* answered 404; after such a connection it is answered with an empty list;
\* any other read of an existing session returns the messages appended to it
\* so far, in order, unchanged.
C18_ReadAfterDeleteAmended ==
    [][ReadsSession =>
            LET id == http_response'.session_id IN
            IF since_delete[id] = "deleted"
            THEN http_response'.status = 404
            ELSE IF since_delete[id] = "connected"
            THEN http_response'.status = 200 /\ http_response'.messages = <<>>
            ELSE IF id \in DOMAIN chat_sessions
            THEN /\ http_response'.status = 200
                 /\ http_response'.messages = appended[id]
            ELSE http_response'.status = 404]_vars

C18_Witness ==
    /\ http_response = HttpResponse("get", "s1", 404, <<>>)
    /\ since_delete["s1"] = "deleted"
    /\ websocket.state = "open"
    /\ websocket.session_id = "s1"

\* C19 (as claimed): for every inbound frame that is a JSON object, whatever
\* happened between the frames, the server stored the user message, then the
\* assistant message, and emitted exactly one frame of type "message".
C19_ObjectFrameAnswered ==
    websocket.json = "object"
    => /\ websocket.stored = <<"user", "assistant">>
       /\ Len(websocket.sent) = 1
       /\ websocket.sent[1].type = "message"

\* C20 (as claimed): after an error frame the channel is still open and the
\* receive loop goes on; only a close by the peer ends the loop.
C20_ErrorKeepsChannelOpen ==
    /\ (websocket.sent # <<>> /\ websocket.sent[1].type = "error") => websocket.state = "open"
    /\ websocket.state = "closed" => websocket.closed_by = "peer"

\* C21 (as claimed): when the deadline of analyze elapses while an LLM call
\* (code generation or summarization) is outstanding, the call is aborted and
\* analyze returns a failure, as it does when the deadline elapses during the
\* container wait.
C21_DeadlineBoundsLlmCalls ==
    (pc = "done" /\ (Expired("generate") \/ Expired("insights")))
    => /\ result.status = "returned"
       /\ ~result.success

\* C22: a report without violations has risk_level 'safe' with no warning,
\* 'low' with 1 to 5 warnings and 'medium' with 6 or more; a report with at
\* least one violation has risk_level 'high' or 'critical'.
C22_RiskThresholds ==
    report.status = "returned"
    => LET n == Len(report.warnings) IN
       IF Len(report.violations) = 0
       THEN report.risk_level = IF n = 0 THEN "safe" ELSE IF n <= 5 THEN "low" ELSE "medium"
       ELSE report.risk_level \in {"high", "critical"}

C22_Witness ==
    /\ report.status = "returned"
    /\ Len(report.violations) = 0
    /\ Len(report.warnings) = 5
    /\ report.risk_level = "low"

\* C23: insights are generated only after a successful execution; after a
\* failed one (non-zero exit, timeout, failed start) the step is skipped and the
\* result is assembled from the failed ExecutionResult.
C23_InsightsOnlyAfterSuccess ==
    /\ pc = "insights" => execution_result.success
    /\ (ExecuteReturned /\ ~execution_result.success)
       => /\ insights = NoneValue
          /\ ~Called("llm.summarize")
          /\ pc = "done" => result = process(query, execution_result, NoneValue).result

C23_Witness ==
    /\ pc = "done"
    /\ ExecuteReturned
    /\ ~execution_result.success
    /\ ~result.success
    /\ result.raw_output = execution_result.stderr

\* process() has assembled the result of a successful execution
Processed == pc = "done" /\ execution_result.success /\ result.success

IsImageArtifact(name) ==
    EndsWith(name, ".png") \/ EndsWith(name, ".jpg") \/ EndsWith(name, ".jpeg")

VisualizationsOf(name) ==
    {j \in 1..Len(result.visualizations) : result.visualizations[j].filename = name}

\* C24: for a successful execution every image artifact (.png, .jpg, .jpeg)
\* has exactly one visualization entry (type image, format png or jpg, base64
\* data) and every .html artifact exactly one entry of type html.
C24_EveryImageIsAVisualization ==
    Processed
    => \A i \in 1..Len(execution_result.outputs) :
          LET e == execution_result.outputs[i] IN
          /\ IsImageArtifact(e.name)
             => /\ Cardinality(VisualizationsOf(e.name)) = 1
                /\ \A j \in VisualizationsOf(e.name) :
                      /\ result.visualizations[j].type = "image"
                      /\ result.visualizations[j].format \in {"png", "jpg"}
                      /\ result.visualizations[j].data = Base64(e.value)
          /\ EndsWith(e.name, ".html")
             => /\ Cardinality(VisualizationsOf(e.name)) = 1
                /\ \A j \in VisualizationsOf(e.name) : result.visualizations[j].type = "html"

\* C30: for a successful execution whose outputs hold a metrics.json object,
\* every top-level key of metrics.json is in AnalysisResult.metrics with its
\* value, whatever other .json artifacts there are.
C30_MetricsJsonKept ==
    (/\ Processed
     /\ "metrics.json" \in Keys(execution_result.outputs)
     /\ Lookup(execution_result.outputs, "metrics.json").type = "dict")
    => Lookup(execution_result.outputs, "metrics.json").entries \subseteq result.metrics

\* C25: every ValidationResult with is_safe = false names at least one
\* violation; warnings alone never make a program unsafe.
C25_UnsafeNamesAViolation ==
    (report.status = "returned" /\ ~report.is_safe) => Len(report.violations) > 0

\* C26: for a non-empty list of queries and max_concurrent >= 0 batch_analyze
\* eventually returns and no analysis waits forever on the semaphore: an
\* analysis waits in acquire() only while another analysis holds the semaphore
\* (and releases it when its analyze call ends) or after it was woken up.
C26_NoAnalysisWaitsForever ==
    (batch_pc = "gather" /\ max_concurrent >= 0 /\ queries # <<>>)
    => \A t \in 1..Len(tasks) :
          tasks[t].pc = "blocked"
          => \/ Holding # {}
             \/ \E k \in 1..Len(ready) : ready[k] = t

\* every call named first in the log precedes every call named second
Precedes(first, second) ==
    \A i, j \in 1..Len(trace) :
        (trace[i].call = first /\ trace[j].call = second) => i < j

\* within one execute call: wait, then collection, then removal of the
\* container, then destruction of the workspace
ExecuteOrder ==
    /\ Precedes("wait", "collect")
    /\ Precedes("wait", "remove")
    /\ Precedes("collect", "remove")
    /\ Precedes("remove", "rmtree")
    /\ Precedes("collect", "rmtree")

\* C28: within one execute call the events are ordered container exit (or wait
\* failure), collection of outputs, container removal, workspace destruction;
\* the workspace is never destroyed while its container still exists, and
\* outputs are not read before the container exited or after the workspace
\* was destroyed.
C28_ExecuteOrder ==
    /\ ExecuteOrder
    /\ workspace = "removed" => container.state \in {"none", "removed"}

\* the execute call of client c is in progress: its container was started and
\* its own finally clause has not run yet
InProgress(c) == clients[c].pc \in {"wait", "remove"}

\* C27: the container of an execution in progress is removed only by its own
\* execute call; cleanup / cleanup_all of another call never removes it.
C27_OnlyOwnerRemoves ==
    [][\A c \in Clients :
          (InProgress(c) /\ c \in ListSandboxContainers /\ daemon'[c] = "removed")
          => (clients[c].pc = "remove" /\ clients'[c].pc = "returned")]_vars

\* C29: under any interleaving of threads reading engine and a thread calling
\* close(), the engine property never returns None.
C29_EngineNeverNone ==
    \A th \in Readers : threads[th].pc = "returned" => threads[th].value # 0
====
